---------------------------- MODULE Spec2Model ----------------------------
(***************************************************************************)
(* Model of the runbuncalc damage-calculation front ends:                  *)
(*   graphql_server.js  (resolvers calculateDamage, getTrainerPokemonSets) *)
(*   cli_calc.js        (calculateDamageCLI)                               *)
(* with their shared helpers getPokemonOptions and getFormattedResult.     *)
(*                                                                         *)
(* Text is a sequence of one-character strings, so that word boundaries,   *)
(* first tokens and regular-expression matching are computed, not assumed. *)
(* A JavaScript object is a record; a property whose value is undefined is *)
(* a key that is not in the record's domain.                               *)
(***************************************************************************)
EXTENDS Integers, Sequences, FiniteSets, TLC

VARIABLES
    SETDEX_BY_GEN,    \* generation -> ordered species list, loaded at startup
    engine,           \* the damage engine's behaviour (external collaborator)
    options,          \* the request being served (<<>> when there is none)
    pc,               \* "idle" | "pending" | "done"
    pokemon1Options,  \* what getPokemonOptions returned for options.pokemon1
    pokemon2Options,  \* what getPokemonOptions returned for options.pokemon2
    results,          \* the handler's outcome: a result object or an error
    calls             \* the engine calculate() invocations of this request

vars == <<SETDEX_BY_GEN, engine, options, pc, pokemon1Options,
          pokemon2Options, results, calls>>

-----------------------------------------------------------------------------
(* Bounds of the model. *)

\* Most presets declared for one species.
MaxSets == 2

\* Longest move list of a request or of a preset.
MaxMoves == 2

-----------------------------------------------------------------------------
(* Text. *)

\* [A-Za-z0-9_] restricted to the letters of the model's alphabet.
WordChars == {"a", "A", "b", "B"}

IsWordChar(c) == c \in WordChars

\* The "i" flag compares characters after upper-casing them.
Canonicalize(c) ==
    CASE c = "a" -> "A"
      [] c = "b" -> "B"
      [] OTHER -> c

\* \b at offset i of s (0 .. Len(s)): exactly one of the characters on the
\* two sides of the offset is a word character.
IsWordBoundary(s, i) ==
    LET before == i > 0 /\ IsWordChar(s[i])
        after  == i < Len(s) /\ IsWordChar(s[i + 1])
    IN  before # after

\* s.split(" ")[0]
RECURSIVE FirstWord(_)
FirstWord(s) ==
    IF s = <<>> \/ Head(s) = " " THEN <<>>
    ELSE <<Head(s)>> \o FirstWord(Tail(s))

\* The characters the escaping replace() of getTrainerPokemonSets prefixes
\* with a backslash, restricted to the model's alphabet.
RegexSpecialChars == {"."}

\* trainerName.replace(/[-\/\\^$*+?.()|[\]{}]/g, "\\$&")
RECURSIVE EscapeRegExp(_)
EscapeRegExp(s) ==
    IF s = <<>> THEN <<>>
    ELSE (IF Head(s) \in RegexSpecialChars THEN <<"\\", Head(s)>>
          ELSE <<Head(s)>>) \o EscapeRegExp(Tail(s))

\* The atoms a pattern source compiles to: "." matches any character, a
\* backslash makes the next character literal, any other character is
\* itself.
RECURSIVE CompilePattern(_)
CompilePattern(src) ==
    IF src = <<>> THEN <<>>
    ELSE IF Head(src) = "\\" /\ Len(src) >= 2
         THEN <<[any |-> FALSE, ch |-> src[2]]>>
                  \o CompilePattern(Tail(Tail(src)))
    ELSE IF Head(src) = "."
         THEN <<[any |-> TRUE, ch |-> "."]>> \o CompilePattern(Tail(src))
    ELSE <<[any |-> FALSE, ch |-> Head(src)]>> \o CompilePattern(Tail(src))

AtomMatches(atom, c) ==
    atom.any \/ Canonicalize(atom.ch) = Canonicalize(c)

\* new RegExp(`\\b${src}\\b`, "i").test(s)
RegExpTest(src, s) ==
    LET atoms == CompilePattern(src)
        n     == Len(atoms)
    IN  \E i \in 0..Len(s) :
            /\ i + n <= Len(s)
            /\ IsWordBoundary(s, i)
            /\ \A k \in 1..n : AtomMatches(atoms[k], s[i + k])
            /\ IsWordBoundary(s, i + n)

-----------------------------------------------------------------------------
(* JavaScript objects. *)

Has(o, k) == k \in DOMAIN o

\* The object with no properties: {} (also what spreading undefined adds).
EmptyObject == <<>>

\* { k: o.k } when o.k is defined, nothing otherwise.
Prop(o, k) == IF Has(o, k) THEN k :> o[k] ELSE EmptyObject

\* o restricted to the properties named in keys.
Pick(o, keys) == [k \in (DOMAIN o) \cap keys |-> o[k]]

\* A spread that forgets its first operand.
SpreadRightOnly(a, b) == b

\* { ...a, ...b }: the properties of b win.
Spread(a, b) == b @@ a

\* o?.k spread into an object literal: undefined spreads nothing.
SpreadProp(o, k) == IF Has(o, k) THEN o[k] ELSE EmptyObject

\* o.k || d for a number: undefined and 0 are falsy.
NumOr(o, k, d) == IF Has(o, k) /\ o[k] # 0 THEN o[k] ELSE d

\* o.k || d for a string: undefined and "" are falsy.
StrOr(o, k, d) == IF Has(o, k) /\ o[k] # "" THEN o[k] ELSE d

\* o.k || false for a boolean.
BoolOr(o, k) == Has(o, k) /\ o[k]

\* o.k || d for an object or an array: only undefined is falsy.
ObjOr(o, k, d) == IF Has(o, k) THEN o[k] ELSE d

\* { k: a.k || b.k } for a string property that b may not define either.
StrOrProp(a, b, k) ==
    IF Has(a, k) /\ a[k] # "" THEN k :> a[k] ELSE Prop(b, k)

-----------------------------------------------------------------------------
(* getPokemonOptions. *)

Stats == {"hp", "atk", "def", "spa", "spd", "spe"}

DefaultIV == 31
DefaultEV == 0
DefaultLevel == 100

defaultIVs == [s \in Stats |-> DefaultIV]
defaultEVs == [s \in Stats |-> DefaultEV]

\* The errors getPokemonOptions throws, named as in the error taxonomy.
DatasetNotFound == "DatasetNotFound"
SpeciesNotFound == "SpeciesNotFound"
TrainerSetNotFound == "TrainerSetNotFound"
MissingPokemonName == "MissingPokemonName"

\* setdex[speciesName]: the species' entry (0 when the key is undefined).
RECURSIVE SpeciesIndex(_, _, _)
SpeciesIndex(setdex, speciesName, i) ==
    IF i > Len(setdex) THEN 0
    ELSE IF setdex[i].speciesName = speciesName THEN i
    ELSE SpeciesIndex(setdex, speciesName, i + 1)

\* speciesSets[key]: the preset declared under that exact name (0 when none).
RECURSIVE SetIndex(_, _, _)
SetIndex(speciesSets, key, i) ==
    IF i > Len(speciesSets) THEN 0
    ELSE IF speciesSets[i].setName = key THEN i
    ELSE SetIndex(speciesSets, key, i + 1)

\* currentSet.trainer && trainerNameRegex.test(currentSet.trainer)
TrainerLabelTest(trainerName, currentSet) ==
    /\ Has(currentSet, "trainer")
    /\ currentSet.trainer # <<>>
    /\ RegExpTest(trainerName, currentSet.trainer)

\* The for-in loop over the species' presets, from preset i on, with the
\* candidate trainerSet found so far (0 for null).  The value is the
\* position of the preset the loop leaves in trainerSet.
RECURSIVE ScanSets(_, _, _, _)
ScanSets(speciesSets, trainerName, i, trainerSet) ==
    IF i > Len(speciesSets) THEN trainerSet
    ELSE LET setName    == speciesSets[i].setName
             currentSet == speciesSets[i].set
         IN  IF \/ RegExpTest(trainerName, setName)
                \/ TrainerLabelTest(trainerName, currentSet)
             THEN i
             ELSE IF trainerSet = 0
                     /\ FirstWord(setName) = FirstWord(trainerName)
                  THEN ScanSets(speciesSets, trainerName, i + 1, i)
                  ELSE ScanSets(speciesSets, trainerName, i + 1, trainerSet)

\* A lookup that tries the direct key before the loop.
resolveOneKeyFirst(speciesSets, trainerName) ==
    LET direct == SetIndex(speciesSets, trainerName, 1)
    IN  IF direct = 0
        THEN ScanSets(speciesSets, trainerName, 1, 0)
        ELSE direct

\* The preset lookup of getPokemonOptions: the loop, then the direct key.
resolveOne(speciesSets, trainerName) ==
    LET trainerSet == ScanSets(speciesSets, trainerName, 1, 0)
    IN  IF trainerSet = 0
        THEN SetIndex(speciesSets, trainerName, 1)
        ELSE trainerSet

\* The options object built from the request's own fields.
BaseOptions(rawPokemonConfig) ==
    Prop(rawPokemonConfig, "name")
    @@ Prop(rawPokemonConfig, "ability")
    @@ Prop(rawPokemonConfig, "item")
    @@ Prop(rawPokemonConfig, "curHP")
    @@ [level       |-> NumOr(rawPokemonConfig, "level", DefaultLevel),
        nature      |-> StrOr(rawPokemonConfig, "nature", "Serious"),
        ivs         |-> Spread(defaultIVs, SpreadProp(rawPokemonConfig, "ivs")),
        evs         |-> Spread(defaultEVs, SpreadProp(rawPokemonConfig, "evs")),
        boosts      |-> ObjOr(rawPokemonConfig, "boosts", EmptyObject),
        status      |-> StrOr(rawPokemonConfig, "status", ""),
        isDynamaxed |-> BoolOr(rawPokemonConfig, "isDynamaxed"),
        moves       |-> ObjOr(rawPokemonConfig, "moves", <<>>)]

\* The kept properties without the status.
KeptKeysNoStatus == {"boosts", "curHP", "isDynamaxed"}

\* The properties the trainer layer leaves as the request set them.
KeptKeys == {"boosts", "curHP", "status", "isDynamaxed"}

\* The spreads in the other order: the set's stats over the request's.
MergeStatsSetLast(defaults, trainerSet, rawPokemonConfig, k) ==
    Spread(Spread(defaults, SpreadProp(rawPokemonConfig, k)),
           SpreadProp(trainerSet, k))

\* graphql_server.js: { ...defaults, ...trainerSet[k], ...rawPokemonConfig?.[k] }
MergeStats(defaults, trainerSet, rawPokemonConfig, k) ==
    Spread(Spread(defaults, SpreadProp(trainerSet, k)),
           SpreadProp(rawPokemonConfig, k))

\* The two move lists concatenated.
TrainerMovesMerged(trainerSet, pokemonOptions) ==
    ObjOr(trainerSet, "moves", <<>>) \o pokemonOptions.moves

\* trainerSet.moves || pokemonOptions.moves (both files)
TrainerMoves(trainerSet, pokemonOptions) ==
    ObjOr(trainerSet, "moves", pokemonOptions.moves)

\* A trainer layer in which the request's own scalars win over the set's.
ApplyTrainerSetRequestFirst(pokemonOptions, rawPokemonConfig, speciesName, trainerSet) ==
    [name   |-> speciesName,
     level  |-> NumOr(rawPokemonConfig, "level",
                      NumOr(trainerSet, "level", DefaultLevel)),
     nature |-> StrOr(rawPokemonConfig, "nature",
                      StrOr(trainerSet, "nature", "Serious")),
     ivs    |-> MergeStats(defaultIVs, trainerSet, rawPokemonConfig, "ivs"),
     evs    |-> MergeStats(defaultEVs, trainerSet, rawPokemonConfig, "evs"),
     moves  |-> TrainerMoves(trainerSet, pokemonOptions)]
    @@ StrOrProp(rawPokemonConfig, trainerSet, "ability")
    @@ StrOrProp(rawPokemonConfig, trainerSet, "item")
    @@ Pick(pokemonOptions, KeptKeys)

\* A trainer layer that keeps a name the request supplies.
ApplyTrainerSetKeepName(pokemonOptions, rawPokemonConfig, speciesName, trainerSet) ==
    [name   |-> StrOr(pokemonOptions, "name", speciesName),
     level  |-> NumOr(trainerSet, "level", pokemonOptions.level),
     nature |-> StrOr(trainerSet, "nature", pokemonOptions.nature),
     ivs    |-> MergeStats(defaultIVs, trainerSet, rawPokemonConfig, "ivs"),
     evs    |-> MergeStats(defaultEVs, trainerSet, rawPokemonConfig, "evs"),
     moves  |-> TrainerMoves(trainerSet, pokemonOptions)]
    @@ StrOrProp(trainerSet, pokemonOptions, "ability")
    @@ StrOrProp(trainerSet, pokemonOptions, "item")
    @@ Pick(pokemonOptions, KeptKeys)

\* graphql_server.js: the trainer set laid over the options.
ApplyTrainerSet(pokemonOptions, rawPokemonConfig, speciesName, trainerSet) ==
    [name   |-> speciesName,
     level  |-> NumOr(trainerSet, "level", pokemonOptions.level),
     nature |-> StrOr(trainerSet, "nature", pokemonOptions.nature),
     ivs    |-> MergeStats(defaultIVs, trainerSet, rawPokemonConfig, "ivs"),
     evs    |-> MergeStats(defaultEVs, trainerSet, rawPokemonConfig, "evs"),
     moves  |-> TrainerMoves(trainerSet, pokemonOptions)]
    @@ StrOrProp(trainerSet, pokemonOptions, "ability")
    @@ StrOrProp(trainerSet, pokemonOptions, "item")
    @@ Pick(pokemonOptions, KeptKeys)

\* cli_calc.js: the trainer set laid over the options.
ApplyTrainerSetCLI(pokemonOptions, speciesName, trainerSet) ==
    [name   |-> speciesName,
     level  |-> NumOr(trainerSet, "level", DefaultLevel),
     nature |-> StrOr(trainerSet, "nature", "Serious"),
     ivs    |-> Spread(defaultIVs, SpreadProp(trainerSet, "ivs")),
     evs    |-> Spread(defaultEVs, SpreadProp(trainerSet, "evs")),
     moves  |-> TrainerMoves(trainerSet, pokemonOptions)]
    @@ Prop(trainerSet, "ability")
    @@ Prop(trainerSet, "item")
    @@ Pick(pokemonOptions, KeptKeys)

Thrown(e) == [error |-> e, value |-> EmptyObject, trainerSet |-> 0]

\* if (!pokemonOptions.name) throw ...; return pokemonOptions
Returned(pokemonOptions, trainerSet) ==
    IF ~Has(pokemonOptions, "name") \/ pokemonOptions.name = ""
    THEN Thrown(MissingPokemonName)
    ELSE [error |-> "", value |-> pokemonOptions, trainerSet |-> trainerSet]

\* getPokemonOptions(genNum, rawPokemonConfig) of the file named by api
\* ("graphql" or "cli"), against the loaded sets.  The value is what the call
\* returns or throws; trainerSet is the position, in the species' declaration
\* order, of the preset it used (0 without a trainer reference).
getPokemonOptions(api, setdexByGen, genNum, rawPokemonConfig) ==
    LET pokemonOptions == BaseOptions(rawPokemonConfig)
    IN  IF ~Has(rawPokemonConfig, "trainerPokemon")
        THEN Returned(pokemonOptions, 0)
        ELSE
        LET speciesName == rawPokemonConfig.trainerPokemon.speciesName
            trainerName == rawPokemonConfig.trainerPokemon.trainerName
        IN  IF genNum \notin DOMAIN setdexByGen
            THEN Thrown(DatasetNotFound)
            ELSE
            LET setdex == setdexByGen[genNum]
                sp     == SpeciesIndex(setdex, speciesName, 1)
            IN  IF sp = 0
                THEN Thrown(SpeciesNotFound)
                ELSE
                LET speciesSets == setdex[sp].sets
                    found       == resolveOne(speciesSets, trainerName)
                IN  IF found = 0
                    THEN Thrown(TrainerSetNotFound)
                    ELSE
                    LET trainerSet == speciesSets[found].set
                    IN  Returned(
                          IF api = "cli"
                          THEN ApplyTrainerSetCLI(pokemonOptions, speciesName,
                                                  trainerSet)
                          ELSE ApplyTrainerSet(pokemonOptions, rawPokemonConfig,
                                               speciesName, trainerSet),
                          found)

-----------------------------------------------------------------------------
(* The damage engine (@smogon/calc), as the handlers use it.  The variable *)
(* engine holds what the engine does for each move name:                   *)
(*   ctor   "raise" when new Move(gen, moveName, ...) throws, else "ok"    *)
(*   bp     the move's base power                                          *)
(*   hit    isCrit -> what calculate(...) and the result's methods do:     *)
(*          raises  the first call that throws: "calculate", "range",      *)
(*                  "maxHP", "kochance", "desc", or "none"                 *)
(*          range, kochance, desc, message: the values they give           *)

\* The species new Pokemon(gen, name, options) knows, with their maxHP().
SpeciesMaxHP == [Garchomp |-> 400, Corviknight |-> 402, Staryu |-> 201]

PokemonRaises(name) == name \notin DOMAIN SpeciesMaxHP

\* new Pokemon(gen, name, pokemonOptions), for a species the engine knows.
\* ref tells the two objects of a request apart: 1 for pokemon1, 2 for
\* pokemon2.
Pokemon(ref, name, pokemonOptions) ==
    [ref |-> ref, name |-> name, level |-> pokemonOptions.level,
     maxHP |-> SpeciesMaxHP[name]]
    @@ Prop(pokemonOptions, "ability")
    @@ Prop(pokemonOptions, "item")

\* The properties of its argument that new Field(...) reads.
FieldKeys == {"weather", "terrain", "isGravity", "isMagicRoom", "isWonderRoom",
              "isBeadsOfRuin", "isTabletsOfRuin", "isSwordOfRuin",
              "isVesselOfRuin", "attackerSide", "defenderSide"}

Field(fieldOptions) == Pick(fieldOptions, FieldKeys)

-----------------------------------------------------------------------------
(* getFormattedResult. *)

\* Math.round in the place of Math.floor.
MathRoundTenths(damage, maxHP) == (2 * damage * 1000 + maxHP) \div (2 * maxHP)

\* Math.floor((damage * 1000) / maxHP): the percentage in tenths of a percent
\* (the code divides this integer by 10).
FloorTenths(damage, maxHP) == (damage * 1000) \div maxHP

\* Whether the try block throws: calculate and range() are always called,
\* maxHP(), kochance() and desc() only when the maximum damage is not 0.
TryThrows(outcome) ==
    \/ outcome.raises \in {"calculate", "range"}
    \/ /\ outcome.raises \in {"maxHP", "kochance", "desc"}
       /\ outcome.range[2] # 0

\* The object getFormattedResult returns when the move's base power is 0.
StatusMoveResult(moveName, isCrit) ==
    [damageRange     |-> <<0, 0>>,
     percentageRange |-> <<0, 0>>,
     koChance        |-> "No damaging effect",
     description     |->
        IF isCrit
        THEN <<moveName, " is a non-damaging move, so it cannot critically hit.">>
        ELSE <<moveName, " is a non-damaging move.">>]

\* A catch block that drops the error's message.
CalcErrorResultNoMessage(moveName, message) ==
    [damageRange     |-> <<0, 0>>,
     percentageRange |-> <<0, 0>>,
     koChance        |-> "Calculation Error / No effect",
     description     |-> <<moveName, " could not be calculated">>]

\* The object built by the catch block.
CalcErrorResult(moveName, message) ==
    [damageRange     |-> <<0, 0>>,
     percentageRange |-> <<0, 0>>,
     koChance        |-> "Calculation Error / No effect",
     description     |-> <<moveName, " could not be calculated: ", message>>]

\* The object built when range() reports a maximum of 0.
ImmuneResult(moveName, defender) ==
    [damageRange     |-> <<0, 0>>,
     percentageRange |-> <<0, 0>>,
     koChance        |-> "Immune / No damaging effect",
     description     |-> <<moveName, " had no damaging effect on ",
                           defender.name, ".">>]

\* A result whose percentage bounds are computed from the wrong damage bound.
DamageResultSwapped(outcome, defender) ==
    [damageRange     |-> outcome.range,
     percentageRange |-> <<FloorTenths(outcome.range[2], defender.maxHP),
                           FloorTenths(outcome.range[1], defender.maxHP)>>,
     koChance        |-> outcome.kochance,
     description     |-> <<outcome.desc>>]

\* The object built from a result with a maximum above 0.
DamageResult(outcome, defender) ==
    [damageRange     |-> outcome.range,
     percentageRange |-> <<FloorTenths(outcome.range[1], defender.maxHP),
                           FloorTenths(outcome.range[2], defender.maxHP)>>,
     koChance        |-> outcome.kochance,
     description     |-> <<outcome.desc>>]

\* The try block without its dmgMax === 0 branch.
CalculatedResultNoImmunity(outcome, moveName, defender) ==
    IF TryThrows(outcome) THEN CalcErrorResult(moveName, outcome.message)
    ELSE DamageResult(outcome, defender)

\* What the body of the else branch (the try/catch) returns.
CalculatedResult(outcome, moveName, defender) ==
    IF TryThrows(outcome) THEN CalcErrorResult(moveName, outcome.message)
    ELSE IF outcome.range[2] = 0 THEN ImmuneResult(moveName, defender)
    ELSE DamageResult(outcome, defender)

\* One calculate(gen, attacker, defender, move, field) invocation.
Call(attacker, defender, moveName, field, isCrit) ==
    [attacker |-> attacker.ref, defender |-> defender.ref,
     moveName |-> moveName, isCrit |-> isCrit, field |-> field]

\* getFormattedResult without its base-power check.
getFormattedResultNoBpCheck(eng, attacker, defender, moveName, field, isCrit) ==
    LET move == eng[moveName]
    IN  IF move.ctor = "raise"
        THEN [thrown |-> TRUE, hit |-> EmptyObject, calls |-> <<>>]
        ELSE [thrown |-> FALSE,
              hit    |-> CalculatedResult(move.hit[isCrit], moveName, defender),
              calls  |-> <<Call(attacker, defender, moveName, field, isCrit)>>]

\* getFormattedResult(gen, attacker, defender, moveName, field, isCrit) under
\* the engine behaviour eng:
\*   thrown  whether an error leaves the function (new Move is outside the try)
\*   hit     the object returned
\*   calls   the calculate invocations made
getFormattedResult(eng, attacker, defender, moveName, field, isCrit) ==
    LET move == eng[moveName]
    IN  IF move.ctor = "raise"
        THEN [thrown |-> TRUE, hit |-> EmptyObject, calls |-> <<>>]
        ELSE IF move.bp = 0
        THEN [thrown |-> FALSE, hit |-> StatusMoveResult(moveName, isCrit),
              calls |-> <<>>]
        ELSE [thrown |-> FALSE,
              hit    |-> CalculatedResult(move.hit[isCrit], moveName, defender),
              calls  |-> <<Call(attacker, defender, moveName, field, isCrit)>>]

-----------------------------------------------------------------------------
(* The two attack directions. *)

\* The errors of the engine's constructors, which no handler code catches
\* per move.
PokemonError == "PokemonError"
MoveError == "MoveError"

\* One iteration of the for-of loop, given what its two getFormattedResult
\* calls did, and what the rest of the loop does:
\*   thrown            whether a getFormattedResult call threw
\*   moveCalculations  the array built (when nothing was thrown)
\*   calls             the calculate invocations made, in order
\* A loop body that asks for the critical hit before the normal hit.
MoveStepCritFirst(moveName, normalHit, criticalHit, rest) ==
    IF normalHit.thrown
    THEN [thrown |-> TRUE, moveCalculations |-> <<>>,
          calls |-> normalHit.calls]
    ELSE IF criticalHit.thrown
    THEN [thrown |-> TRUE, moveCalculations |-> <<>>,
          calls |-> criticalHit.calls \o normalHit.calls]
    ELSE [thrown |-> rest.thrown,
          moveCalculations |->
             IF rest.thrown THEN <<>>
             ELSE <<[moveName    |-> moveName,
                     normalHit   |-> normalHit.hit,
                     criticalHit |-> criticalHit.hit]>>
                  \o rest.moveCalculations,
          calls |-> criticalHit.calls \o normalHit.calls \o rest.calls]

MoveStep(moveName, normalHit, criticalHit, rest) ==
    IF normalHit.thrown
    THEN [thrown |-> TRUE, moveCalculations |-> <<>>,
          calls |-> normalHit.calls]
    ELSE IF criticalHit.thrown
    THEN [thrown |-> TRUE, moveCalculations |-> <<>>,
          calls |-> normalHit.calls \o criticalHit.calls]
    ELSE [thrown |-> rest.thrown,
          moveCalculations |->
             IF rest.thrown THEN <<>>
             ELSE <<[moveName    |-> moveName,
                     normalHit   |-> normalHit.hit,
                     criticalHit |-> criticalHit.hit]>>
                  \o rest.moveCalculations,
          calls |-> normalHit.calls \o criticalHit.calls \o rest.calls]

\* The for-of loop over the attacker's moves, from move i on.
RECURSIVE MoveLoop(_, _, _, _, _, _)
MoveLoop(eng, attacker, defender, moves, field, i) ==
    IF i > Len(moves)
    THEN [thrown |-> FALSE, moveCalculations |-> <<>>, calls |-> <<>>]
    ELSE MoveStep(moves[i],
                  getFormattedResult(eng, attacker, defender, moves[i],
                                     field, FALSE),
                  getFormattedResult(eng, attacker, defender, moves[i],
                                     field, TRUE),
                  MoveLoop(eng, attacker, defender, moves, field, i + 1))

\* { name, level, ability: p.ability || "N/A", item: p.item || "N/A" }
Summary(pokemon) ==
    [name    |-> pokemon.name,
     level   |-> pokemon.level,
     ability |-> StrOr(pokemon, "ability", "N/A"),
     item    |-> StrOr(pokemon, "item", "N/A")]

\* `${pokemon.name} has no moves to calculate.`
NoMovesMessage(pokemon) == <<pokemon.name, " has no moves to calculate.">>

\* A side lookup that ignores which side is asked for.
SideOfPokemon1(opts, side) ==
    IF Has(opts, "field") /\ Has(opts.field, "pokemon1Side")
    THEN opts.field.pokemon1Side
    ELSE EmptyObject

\* options.field?.[side] || {}
SideOf(opts, side) ==
    IF Has(opts, "field") /\ Has(opts.field, side)
    THEN opts.field[side]
    ELSE EmptyObject

\* graphql_server.js: new Field({...options.field, attackerSide, defenderSide})
DirectionField(opts, attackerSide, defenderSide) ==
    Field(Spread(SpreadProp(opts, "field"),
                 [attackerSide |-> SideOf(opts, attackerSide),
                  defenderSide |-> SideOf(opts, defenderSide)]))

\* cli_calc.js: fieldOptions
FieldOptionsCLI(opts) ==
    LET field == SpreadProp(opts, "field")
    IN  Prop(field, "weather")
        @@ Prop(field, "terrain")
        @@ [isGravity       |-> BoolOr(field, "isGravity"),
            isMagicRoom     |-> BoolOr(field, "isMagicRoom"),
            isWonderRoom    |-> BoolOr(field, "isWonderRoom"),
            isBeadsOfRuin   |-> BoolOr(field, "isBeadsOfRuin"),
            isTabletsOfRuin |-> BoolOr(field, "isTabletsOfRuin"),
            isSwordOfRuin   |-> BoolOr(field, "isSwordOfRuin"),
            isVesselOfRuin  |-> BoolOr(field, "isVesselOfRuin")]

\* cli_calc.js: new Field({...fieldOptions, attackerSide, defenderSide})
DirectionFieldCLI(opts, attackerSide, defenderSide) ==
    Field(Spread(FieldOptionsCLI(opts),
                 [attackerSide |-> SideOf(opts, attackerSide),
                  defenderSide |-> SideOf(opts, defenderSide)]))

\* The object assigned to results.pokemonXAttackingPokemonY when the attacker
\* has moves (both files).
WithMoves(attacker, defender, loop) ==
    [thrown |-> loop.thrown,
     calls  |-> loop.calls,
     value  |-> [attacker |-> Summary(attacker),
                 defender |-> Summary(defender),
                 moves    |-> loop.moveCalculations]]

\* A direction block whose else branch has no message.
AttackDirectionNoMessage(eng, attacker, defender, moves, field) ==
    IF Len(moves) > 0
    THEN WithMoves(attacker, defender,
                   MoveLoop(eng, attacker, defender, moves, field, 1))
    ELSE [thrown |-> FALSE,
          calls  |-> <<>>,
          value  |-> [attacker |-> Summary(attacker),
                      defender |-> Summary(defender),
                      moves    |-> <<>>]]

\* graphql_server.js: one "Calculate Pokemon X attacking Pokemon Y" block.
AttackDirection(eng, attacker, defender, moves, field) ==
    IF Len(moves) > 0
    THEN WithMoves(attacker, defender,
                   MoveLoop(eng, attacker, defender, moves, field, 1))
    ELSE [thrown |-> FALSE,
          calls  |-> <<>>,
          value  |-> [message  |-> NoMovesMessage(attacker),
                      attacker |-> Summary(attacker),
                      defender |-> Summary(defender),
                      moves    |-> <<>>]]

\* A command-line direction block whose else branch also carries an empty
\* move list.
AttackDirectionMessageAndMoves(eng, attacker, defender, moves, field) ==
    IF Len(moves) > 0
    THEN WithMoves(attacker, defender,
                   MoveLoop(eng, attacker, defender, moves, field, 1))
    ELSE [thrown |-> FALSE,
          calls  |-> <<>>,
          value  |-> [message  |-> NoMovesMessage(attacker),
                      attacker |-> Summary(attacker),
                      defender |-> Summary(defender),
                      moves    |-> <<>>]]

\* cli_calc.js: one "Calculate Pokemon X attacking Pokemon Y" block.
AttackDirectionCLI(eng, attacker, defender, moves, field) ==
    IF Len(moves) > 0
    THEN WithMoves(attacker, defender,
                   MoveLoop(eng, attacker, defender, moves, field, 1))
    ELSE [thrown |-> FALSE,
          calls  |-> <<>>,
          value  |-> [message  |-> NoMovesMessage(attacker),
                      attacker |-> Summary(attacker),
                      defender |-> Summary(defender)]]

-----------------------------------------------------------------------------
(* The handlers.  Each gives the values the handler leaves behind:          *)
(*   p1, p2   what the two getPokemonOptions calls returned or threw         *)
(*   out      [error |-> the error that ended the request, "" for none,      *)
(*             value |-> the results object returned or printed]             *)
(*   calls    the calculate invocations made                                 *)

NotCalled == [error |-> "not called", value |-> EmptyObject, trainerSet |-> 0]

\* A failure that leaves a piece of the results object behind.
FailedPartial(p1, p2, e, calls_) ==
    [p1 |-> p1, p2 |-> p2, calls |-> calls_,
     out |-> [error |-> e,
              value |-> [pokemon1AttackingPokemon2 |-> EmptyObject]]]

Failed(p1, p2, e, calls_) ==
    [p1 |-> p1, p2 |-> p2, calls |-> calls_,
     out |-> [error |-> e, value |-> EmptyObject]]

\* options.generation || 9, as gen.num
GenNum(opts) == NumOr(opts, "generation", 9)

\* The results object: graphql_server.js returns it, cli_calc.js prints it.
Results(api, opts, pokemon1, pokemon2, d12, d21) ==
    IF api = "cli"
    THEN [pokemon1AttackingPokemon2 |-> d12.value,
          pokemon2AttackingPokemon1 |-> d21.value]
    ELSE [generation |-> GenNum(opts),
          pokemon1   |-> Summary(pokemon1),
          pokemon2   |-> Summary(pokemon2),
          pokemon1AttackingPokemon2 |-> d12.value,
          pokemon2AttackingPokemon1 |-> d21.value]

\* One direction, with the helpers of the file named by api.
Direction(api, eng, opts, attacker, defender, moves, aSide, dSide) ==
    IF api = "cli"
    THEN AttackDirectionCLI(eng, attacker, defender, moves,
                            DirectionFieldCLI(opts, aSide, dSide))
    ELSE AttackDirection(eng, attacker, defender, moves,
                         DirectionField(opts, aSide, dSide))

\* The end of the handler, given what the two direction blocks did.
AfterDirections(api, opts, p1, p2, pokemon1, pokemon2, d12, d21) ==
    IF d12.thrown THEN Failed(p1, p2, MoveError, d12.calls)
    ELSE IF d21.thrown THEN Failed(p1, p2, MoveError, d12.calls \o d21.calls)
    ELSE [p1 |-> p1, p2 |-> p2, calls |-> d12.calls \o d21.calls,
          out |-> [error |-> "",
                   value |-> Results(api, opts, pokemon1, pokemon2, d12, d21)]]

\* A second block that loops over the first block's move list.
WithPokemonSameMoves(api, eng, opts, p1, p2, pokemon1, pokemon2) ==
    AfterDirections(api, opts, p1, p2, pokemon1, pokemon2,
        Direction(api, eng, opts, pokemon1, pokemon2, p1.value.moves,
                  "pokemon1Side", "pokemon2Side"),
        Direction(api, eng, opts, pokemon2, pokemon1, p1.value.moves,
                  "pokemon2Side", "pokemon1Side"))

\* The handler from the two constructed Pokemon on.
WithPokemon(api, eng, opts, p1, p2, pokemon1, pokemon2) ==
    AfterDirections(api, opts, p1, p2, pokemon1, pokemon2,
        Direction(api, eng, opts, pokemon1, pokemon2, p1.value.moves,
                  "pokemon1Side", "pokemon2Side"),
        Direction(api, eng, opts, pokemon2, pokemon1, p2.value.moves,
                  "pokemon2Side", "pokemon1Side"))

\* The handler from the two getPokemonOptions calls on: the second is made
\* only when the first returned, the Pokemon are constructed only when both
\* returned.
WithOptions(api, eng, opts, p1, p2) ==
    IF p1.error # "" THEN Failed(p1, NotCalled, p1.error, <<>>)
    ELSE IF p2.error # "" THEN Failed(p1, p2, p2.error, <<>>)
    ELSE IF PokemonRaises(p1.value.name) \/ PokemonRaises(p2.value.name)
    THEN Failed(p1, p2, PokemonError, <<>>)
    ELSE WithPokemon(api, eng, opts, p1, p2,
                     Pokemon(1, p1.value.name, p1.value),
                     Pokemon(2, p2.value.name, p2.value))

\* The body both handlers share: resolve the two sides, construct the two
\* Pokemon, run the two directions; api names the file ("graphql": the
\* resolver calculateDamage, "cli": calculateDamageCLI).
Matchup(api, setdexByGen, eng, opts) ==
    WithOptions(api, eng, opts,
        getPokemonOptions(api, setdexByGen, GenNum(opts), opts.pokemon1),
        getPokemonOptions(api, setdexByGen, GenNum(opts), opts.pokemon2))

-----------------------------------------------------------------------------
(* The inputs the model draws from. *)

\* The generations with a loaded setdex (the source loads 1..9).
LoadedGens == {9}

MoveNames == {"Strike", "Growl"}

\* All sequences over S of length 0..n.
RECURSIVE SeqsUpTo(_, _)
SeqsUpTo(S, n) ==
    IF n = 0 THEN {<<>>}
    ELSE LET shorter == SeqsUpTo(S, n - 1)
         IN  shorter \cup {Append(q, x) : q \in shorter, x \in S}

MoveLists == SeqsUpTo(MoveNames, MaxMoves)

\* What calculate() and the result's methods do for one hit.
Outcome(raises, range, kochance, desc) ==
    [raises |-> raises, range |-> range, kochance |-> kochance,
     desc |-> desc, message |-> "unsupported combination"]

NormalDamage == Outcome("none", <<68, 81>>, "possible 6HKO", "68-81 (16.9 - 20.1%)")
CritDamage   == Outcome("none", <<102, 121>>, "97.5% chance to 4HKO", "102-121")
NoDamage     == Outcome("none", <<0, 0>>, "", "0-0 (0 - 0%)")

\* What the engine may do for one move name.
MoveBehaviours ==
    { \* new Move throws
      [ctor |-> "raise", bp |-> 80, hit |-> [c \in BOOLEAN |-> NormalDamage]],
      \* a status move (calculate would throw if it were called)
      [ctor |-> "ok", bp |-> 0,
       hit |-> [c \in BOOLEAN |->
                  Outcome("calculate", <<0, 0>>, "", "")]],
      \* a damaging move
      [ctor |-> "ok", bp |-> 80,
       hit |-> [c \in BOOLEAN |-> IF c THEN CritDamage ELSE NormalDamage]],
      \* a damaging move the defender is immune to
      [ctor |-> "ok", bp |-> 80, hit |-> [c \in BOOLEAN |-> NoDamage]],
      \* immune, and kochance() would throw if it were called
      [ctor |-> "ok", bp |-> 80,
       hit |-> [c \in BOOLEAN |-> Outcome("kochance", <<0, 0>>, "", "")]],
      \* calculate throws
      [ctor |-> "ok", bp |-> 80,
       hit |-> [c \in BOOLEAN |->
                  Outcome("calculate", <<0, 0>>, "", "")]],
      \* the normal hit is calculated, desc() of the critical hit throws
      [ctor |-> "ok", bp |-> 80,
       hit |-> [c \in BOOLEAN |->
                  IF c THEN Outcome("desc", <<102, 121>>, "4HKO", "")
                  ELSE NormalDamage]] }

Engines == [MoveNames -> MoveBehaviours]

\* One engine, for the specifications that are not about the engine.
PlainEngine ==
    [m \in MoveNames |->
       IF m = "Growl"
       THEN [ctor |-> "ok", bp |-> 0,
             hit |-> [c \in BOOLEAN |-> Outcome("calculate", <<0, 0>>, "", "")]]
       ELSE [ctor |-> "ok", bp |-> 80,
             hit |-> [c \in BOOLEAN |-> IF c THEN CritDamage ELSE NormalDamage]]]

Fields ==
    { EmptyObject,
      [field |-> [weather |-> "Rain", isGravity |-> TRUE,
                  pokemon2Side |-> [isSR |-> TRUE]]] }

\* --- trainer names and preset names (text) ---

TrainerNames ==
    { <<"a">>, <<"A">>, <<"a", " ", "b">>, <<"a", " ">>,
      <<"a", ".", "b">>, <<"b">> }

SetNames ==
    { <<"a">>, <<"a", "b">>, <<"a", " ", "b">>, <<"A", " ", "b">>,
      <<"a", ".", "b">>, <<"a", "a", "b">>, <<"b", " ", "a">>, <<"B">> }

\* Presets that differ only in their trainer label.
LabelledSets ==
    { [moves |-> <<"Strike">>],
      [moves |-> <<"Strike">>, trainer |-> <<"b", " ", "a">>] }

\* All species-sets objects of at most n presets: ordered, with distinct keys.
RECURSIVE SpeciesSetsUpTo(_)
SpeciesSetsUpTo(n) ==
    IF n = 0 THEN {<<>>}
    ELSE LET shorter == SpeciesSetsUpTo(n - 1)
         IN  shorter \cup
             { Append(q, [setName |-> k, set |-> t]) :
                 q \in {r \in shorter : Len(r) = n - 1},
                 k \in SetNames, t \in LabelledSets }

DistinctKeys(speciesSets) ==
    \A i, j \in 1..Len(speciesSets) :
        speciesSets[i].setName = speciesSets[j].setName => i = j

Setdex(speciesName, speciesSets) ==
    [g \in LoadedGens |-> <<[speciesName |-> speciesName, sets |-> speciesSets]>>]

\* --- partial stat objects ---

StatDomains == {{}, {"spe"}, {"hp", "atk"}, Stats}

\* The stat objects that give value v to the stats of one of the domains.
PartialStats(v) == {[s \in d |-> v] : d \in StatDomains}

\* { k: v } for every v of vs, and the object without k.
Optional(k, vs) == {EmptyObject} \cup {k :> v : v \in vs}

\* The ivs/evs of a request (both over the same stats): IV 0 and EV 4.
RawStats ==
    {EmptyObject} \cup {[ivs |-> [s \in d |-> 0], evs |-> [s \in d |-> 4]] :
                           d \in StatDomains}

\* The ivs/evs of a preset (both over the same stats): IV 30 and EV 252.
SetStats ==
    {EmptyObject} \cup {[ivs |-> [s \in d |-> 30], evs |-> [s \in d |-> 252]] :
                           d \in StatDomains}

RawScalars ==
    { EmptyObject,
      [level |-> 5, ability |-> "Rough Skin", item |-> "Choice Band",
       nature |-> "Jolly", boosts |-> [atk |-> 2], curHP |-> 10,
       status |-> "Burn", isDynamaxed |-> TRUE] }

SetScalars ==
    { EmptyObject,
      [level |-> 50, ability |-> "Pressure", item |-> "Leftovers",
       nature |-> "Impish"] }

SetMoves == { <<>>, <<"Growl">>, <<"Strike", "Growl">> }

\* The presets of the configuration specification.
RichSets ==
    { st @@ sc @@ mv : st \in SetStats, sc \in SetScalars,
                       mv \in Optional("moves", SetMoves) }

TheTrainer == [speciesName |-> "Corviknight", trainerName |-> <<"a">>]

\* The raw configurations of the configuration specification.
RichConfigs ==
    { st @@ sc @@ mv @@ tp @@ [name |-> "Garchomp"] :
        st \in RawStats, sc \in RawScalars,
        mv \in Optional("moves", MoveLists),
        tp \in Optional("trainerPokemon", {TheTrainer}) }

\* --- requests ---

Request(pokemon1, pokemon2, field) ==
    [generation |-> 9, pokemon1 |-> pokemon1, pokemon2 |-> pokemon2] @@ field

\* One side of a matchup request: direct with every move list, direct
\* without moves, by trainer reference, without a name, of a species the
\* engine does not know.
Sides(name) ==
    {[name |-> name, moves |-> m] : m \in MoveLists}
    \cup { [name |-> name],
           [trainerPokemon |-> TheTrainer],
           [moves |-> <<"Strike">>],
           [name |-> "Missingno", moves |-> <<"Strike">>] }

MatchupRequests ==
    { Request(a, b, f) : a \in Sides("Garchomp"), b \in Sides("Corviknight"),
                         f \in Fields }

ResolveRequests ==
    { Request([trainerPokemon |-> [speciesName |-> "Staryu", trainerName |-> t]],
              [name |-> "Garchomp"], EmptyObject) : t \in TrainerNames }

ConfigRequests ==
    { Request(c, [name |-> "Corviknight", moves |-> <<"Strike">>], EmptyObject) :
        c \in RichConfigs }

-----------------------------------------------------------------------------
(* The state machine: a request arrives, one of the two front ends serves   *)
(* it, the reply is delivered.  The sets and the engine never change.       *)

Idle ==
    /\ pc = "idle"
    /\ options = EmptyObject
    /\ pokemon1Options = NotCalled
    /\ pokemon2Options = NotCalled
    /\ results = EmptyObject
    /\ calls = <<>>

\* A request from the pool arrives.
Receive(pool) ==
    /\ pc = "idle"
    /\ \E o \in pool : options' = o
    /\ pc' = "pending"
    /\ UNCHANGED <<SETDEX_BY_GEN, engine, pokemon1Options, pokemon2Options,
                   results, calls>>

\* A handler that empties the sets it has read.
ServeConsuming(api) ==
    /\ pc = "pending"
    /\ LET m == Matchup(api, SETDEX_BY_GEN, engine, options)
       IN  /\ pokemon1Options' = m.p1
           /\ pokemon2Options' = m.p2
           /\ results' = [api |-> api] @@ m.out
           /\ calls' = m.calls
    /\ pc' = "done"
    /\ SETDEX_BY_GEN' = [g \in DOMAIN SETDEX_BY_GEN |-> <<>>]
    /\ UNCHANGED <<engine, options>>

Serve(api) ==
    /\ pc = "pending"
    /\ LET m == Matchup(api, SETDEX_BY_GEN, engine, options)
       IN  /\ pokemon1Options' = m.p1
           /\ pokemon2Options' = m.p2
           /\ results' = [api |-> api] @@ m.out
           /\ calls' = m.calls
    /\ pc' = "done"
    /\ UNCHANGED <<SETDEX_BY_GEN, engine, options>>

\* graphql_server.js: resolvers.Query.calculateDamage
calculateDamage == Serve("graphql")

\* cli_calc.js: calculateDamageCLI
calculateDamageCLI == Serve("cli")

\* The reply is delivered; nothing of the request is kept.
Reply ==
    /\ pc = "done"
    /\ pc' = "idle"
    /\ options' = EmptyObject
    /\ pokemon1Options' = NotCalled
    /\ pokemon2Options' = NotCalled
    /\ results' = EmptyObject
    /\ calls' = <<>>
    /\ UNCHANGED <<SETDEX_BY_GEN, engine>>

\* Matchups: every engine behaviour, a fixed setdex.
Init ==
    /\ SETDEX_BY_GEN = Setdex("Corviknight",
                              <<[setName |-> <<"a">>,
                                 set |-> [level |-> 50,
                                          moves |-> <<"Growl", "Strike">>]]>>)
    /\ engine \in Engines
    /\ Idle

Next ==
    \/ Receive(MatchupRequests)
    \/ calculateDamage
    \/ calculateDamageCLI
    \/ Reply

Spec == Init /\ [][Next]_vars

\* Preset lookup: every species-sets object, every trainer name.
InitResolve ==
    /\ \E speciesSets \in {q \in SpeciesSetsUpTo(MaxSets) : DistinctKeys(q)} :
          SETDEX_BY_GEN = Setdex("Staryu", speciesSets)
    /\ engine = PlainEngine
    /\ Idle

NextResolve ==
    \/ Receive(ResolveRequests)
    \/ calculateDamage
    \/ calculateDamageCLI
    \/ Reply

SpecResolve == InitResolve /\ [][NextResolve]_vars

\* Configuration merging: every preset, every raw configuration.
InitConfig ==
    /\ \E set \in RichSets :
          SETDEX_BY_GEN = Setdex("Corviknight",
                                 <<[setName |-> <<"a">>, set |-> set]>>)
    /\ engine = PlainEngine
    /\ Idle

NextConfig ==
    \/ Receive(ConfigRequests)
    \/ calculateDamage
    \/ calculateDamageCLI
    \/ Reply

SpecConfig == InitConfig /\ [][NextConfig]_vars

-----------------------------------------------------------------------------
(* getTrainerPokemonSets (graphql_server.js). *)

\* The test of the listing with the trainer name left unescaped.
MatchesTrainerUnescaped(trainerName, setName, currentSet) ==
    \/ RegExpTest(trainerName, setName)
    \/ TrainerLabelTest(trainerName, currentSet)

\* trainerNameRegex.test(setName) ||
\*   (currentSet.trainer && trainerNameRegex.test(currentSet.trainer)),
\* the pattern built from the escaped trainer name.
MatchesTrainer(trainerName, setName, currentSet) ==
    \/ RegExpTest(EscapeRegExp(trainerName), setName)
    \/ TrainerLabelTest(EscapeRegExp(trainerName), currentSet)

\* The object pushed for one matching preset.
TrainerPokemon(speciesName, setName, currentSet) ==
    [speciesName |-> speciesName,
     setName     |-> setName,
     ability     |-> StrOr(currentSet, "ability", "N/A"),
     item        |-> StrOr(currentSet, "item", "N/A"),
     nature      |-> StrOr(currentSet, "nature", "Serious"),
     ivs         |-> ObjOr(currentSet, "ivs", defaultIVs),
     evs         |-> ObjOr(currentSet, "evs", defaultEVs),
     moves       |-> ObjOr(currentSet, "moves", <<>>)]
    @@ Prop(currentSet, "level")

\* for (const setName in speciesSets), from preset j on.
RECURSIVE PresetLoop(_, _, _, _)
PresetLoop(speciesName, speciesSets, trainerName, j) ==
    IF j > Len(speciesSets) THEN <<>>
    ELSE (IF MatchesTrainer(trainerName, speciesSets[j].setName,
                            speciesSets[j].set)
          THEN <<TrainerPokemon(speciesName, speciesSets[j].setName,
                                speciesSets[j].set)>>
          ELSE <<>>)
         \o PresetLoop(speciesName, speciesSets, trainerName, j + 1)

\* for (const speciesName in setdex), from species i on.
RECURSIVE SpeciesLoop(_, _, _)
SpeciesLoop(setdex, trainerName, i) ==
    IF i > Len(setdex) THEN <<>>
    ELSE PresetLoop(setdex[i].speciesName, setdex[i].sets, trainerName, 1)
         \o SpeciesLoop(setdex, trainerName, i + 1)

\* A listing that answers with an empty list for a generation without sets.
TrainerPokemonSetsLenient(setdexByGen, generation, trainerName) ==
    IF generation \notin DOMAIN setdexByGen
    THEN [error |-> "", value |-> <<>>]
    ELSE [error |-> "",
          value |-> SpeciesLoop(setdexByGen[generation], trainerName, 1)]

\* The resolver's body: [error, value] as for the matchup handlers.
TrainerPokemonSets(setdexByGen, generation, trainerName) ==
    IF generation \notin DOMAIN setdexByGen
    THEN [error |-> DatasetNotFound, value |-> EmptyObject]
    ELSE [error |-> "",
          value |-> SpeciesLoop(setdexByGen[generation], trainerName, 1)]

\* A listing query arrives.
ReceiveQuery(pool) ==
    /\ pc = "idle"
    /\ \E q \in pool : options' = q
    /\ pc' = "query"
    /\ UNCHANGED <<SETDEX_BY_GEN, engine, pokemon1Options, pokemon2Options,
                   results, calls>>

\* graphql_server.js: resolvers.Query.getTrainerPokemonSets
getTrainerPokemonSets ==
    /\ pc = "query"
    /\ results' = [api |-> "graphql"]
                  @@ TrainerPokemonSets(SETDEX_BY_GEN, options.generation,
                                        options.trainerName)
    /\ pc' = "done"
    /\ UNCHANGED <<SETDEX_BY_GEN, engine, options, pokemon1Options,
                   pokemon2Options, calls>>

\* --- the lookup specification: several species, several generations ---

\* The generations a request may name: 9 is loaded, 10 is not, 0 is falsy.
RequestGens == {0, 9, 10}

LookupNames ==
    { <<"a">>, <<"a", " ", "b">>, <<"a", ".", "b">>, <<"a", "a", "b">>,
      <<"b", " ", "a">> }

\* The presets of the first species: one per name, and one that names its
\* trainer in its label only.
LookupEntries ==
    { [setName |-> k, set |-> [moves |-> <<"Strike">>]] : k \in LookupNames }
    \cup { [setName |-> <<"B">>,
            set |-> [moves |-> <<"Strike">>, trainer |-> <<"b", " ", "a">>]] }

RECURSIVE LookupSetsUpTo(_)
LookupSetsUpTo(n) ==
    IF n = 0 THEN {<<>>}
    ELSE LET shorter == LookupSetsUpTo(n - 1)
         IN  shorter \cup
             { Append(q, e) : q \in {r \in shorter : Len(r) = n - 1},
                              e \in LookupEntries }

\* The second species, when it is declared.
SecondSpecies ==
    [speciesName |-> "Corviknight",
     sets |-> << [setName |-> <<"A", " ", "b">>,
                  set |-> [level |-> 50, moves |-> <<"Growl", "Strike">>]],
                 [setName |-> <<"a", "a", "b">>,
                  set |-> [moves |-> <<"Strike">>,
                           trainer |-> <<"a", ".", "b">>]] >>]

LookupSetdexes ==
    { <<[speciesName |-> "Staryu", sets |-> q]>> \o rest :
        q \in {r \in LookupSetsUpTo(MaxSets) : DistinctKeys(r)},
        rest \in {<<>>, <<SecondSpecies>>} }

TrainerRef(speciesName, trainerName) ==
    [trainerPokemon |-> [speciesName |-> speciesName,
                         trainerName |-> trainerName]]

LookupSides1 ==
    { TrainerRef("Staryu", <<"a">>), TrainerRef("Staryu", <<"a", ".", "b">>),
      TrainerRef("Corviknight", <<"a">>), TrainerRef("Garchomp", <<"a">>),
      [moves |-> <<"Strike">>], [name |-> "Garchomp", moves |-> <<"Strike">>] }

LookupSides2 ==
    { TrainerRef("Staryu", <<"b">>),
      [name |-> "Corviknight", moves |-> <<"Strike">>] }

LookupRequests ==
    { [generation |-> g, pokemon1 |-> a, pokemon2 |-> b] :
        g \in RequestGens, a \in LookupSides1, b \in LookupSides2 }

LookupQueries ==
    { [generation |-> g, trainerName |-> t] :
        g \in RequestGens, t \in TrainerNames }

InitLookup ==
    /\ \E setdex \in LookupSetdexes :
          SETDEX_BY_GEN = [g \in LoadedGens |-> setdex]
    /\ engine = PlainEngine
    /\ Idle

NextLookup ==
    \/ Receive(LookupRequests)
    \/ ReceiveQuery(LookupQueries)
    \/ calculateDamage
    \/ calculateDamageCLI
    \/ getTrainerPokemonSets
    \/ Reply

SpecLookup == InitLookup /\ [][NextLookup]_vars

\* --- the build specification: names and falsy values ---

\* Scalars a request may supply that JavaScript takes for false.
FalsyScalars ==
    [level |-> 0, nature |-> "", status |-> "", isDynamaxed |-> FALSE,
     boosts |-> EmptyObject, curHP |-> 0]

BuildConfigs ==
    { nm @@ st @@ sc @@ mv @@ tp :
        nm \in Optional("name", {"Garchomp", ""}),
        st \in RawStats,
        sc \in RawScalars \cup {FalsyScalars},
        mv \in Optional("moves", {<<"Strike">>}),
        tp \in Optional("trainerPokemon", {TheTrainer}) }

BuildRequests ==
    { Request(c, [name |-> "Corviknight", moves |-> <<"Strike">>], EmptyObject) :
        c \in BuildConfigs }

NextBuild ==
    \/ Receive(BuildRequests)
    \/ calculateDamage
    \/ calculateDamageCLI
    \/ Reply

SpecBuild == InitConfig /\ [][NextBuild]_vars

-----------------------------------------------------------------------------
(* What the claims are stated over. *)

Min(S) == CHOOSE x \in S : \A y \in S : x <= y

\* The handler has run and its outcome is in the state.
Done == pc = "done"

\* The request's configuration of pokemon1 / pokemon2.
Raw(n) == IF n = 1 THEN options.pokemon1 ELSE options.pokemon2

\* What getPokemonOptions did for pokemon1 / pokemon2.
Opts(n) == IF n = 1 THEN pokemon1Options ELSE pokemon2Options

ByTrainer(n) == Has(Raw(n), "trainerPokemon")

\* The presets declared for the species the trainer reference names
\* (<<>> when the species is not declared).
SetsOf(n) ==
    LET setdex == SETDEX_BY_GEN[GenNum(options)]
        sp     == SpeciesIndex(setdex, Raw(n).trainerPokemon.speciesName, 1)
    IN  IF sp = 0 THEN <<>> ELSE setdex[sp].sets

\* getPokemonOptions returned for side n, having resolved a trainer reference.
Resolved(n) == Done /\ ByTrainer(n) /\ Opts(n).error = ""

\* The preset it resolved to.
ResolvedSet(n) == SetsOf(n)[Opts(n).trainerSet].set

\* s contains needle as a whole word: letters compared without case, every
\* other character literally, a word boundary on both sides.
ContainsWholeWord(needle, s) ==
    \E i \in 0..Len(s) :
        /\ i + Len(needle) <= Len(s)
        /\ IsWordBoundary(s, i)
        /\ \A k \in 1..Len(needle) :
              Canonicalize(needle[k]) = Canonicalize(s[i + k])
        /\ IsWordBoundary(s, i + Len(needle))

\* The preset's name or its trainer label contains trainerName as a whole word.
NamesTrainer(entry, trainerName) ==
    \/ ContainsWholeWord(trainerName, entry.setName)
    \/ /\ Has(entry.set, "trainer")
       /\ ContainsWholeWord(trainerName, entry.set.trainer)

\* The positions of the presets of side n's species that name its trainer.
WholeWordMatches(n) ==
    {i \in 1..Len(SetsOf(n)) :
        NamesTrainer(SetsOf(n)[i], Raw(n).trainerPokemon.trainerName)}

-----------------------------------------------------------------------------
(* C1 *)

\* C1: whenever some preset of the species has a name or a trainer label that
\* contains trainerName as a whole word (case-insensitively), the lookup
\* returns the first such preset in declaration order.
C1_FirstWholeWordMatchReturned ==
    (Done /\ ByTrainer(1) /\ WholeWordMatches(1) # {}) =>
        /\ pokemon1Options.error = ""
        /\ pokemon1Options.trainerSet = Min(WholeWordMatches(1))

-----------------------------------------------------------------------------
(* C2 *)

StatKinds == {"ivs", "evs"}

StatDefault(k) == IF k = "ivs" THEN DefaultIV ELSE DefaultEV

\* o supplies stat s of kind k.
Supplies(o, k, s) == Has(o, k) /\ s \in DOMAIN o[k]

\* C2: graphql_server.js, trainer reference resolved: each of the six IVs and
\* each of the six EVs is the request's value if the request supplies that
\* stat, otherwise the preset's value if the preset defines it, otherwise the
\* default (31 for an IV, 0 for an EV).
C2_StatPrecedence ==
    (Resolved(1) /\ results.api = "graphql") =>
        \A k \in StatKinds :
            /\ DOMAIN pokemon1Options.value[k] = Stats
            /\ \A s \in Stats :
                  pokemon1Options.value[k][s] =
                      IF Supplies(Raw(1), k, s) THEN Raw(1)[k][s]
                      ELSE IF Supplies(ResolvedSet(1), k, s)
                           THEN ResolvedSet(1)[k][s]
                           ELSE StatDefault(k)

\* The three layers in one result: speed from the request, hp and attack from
\* the preset, defense from the defaults.
C2_Witness ==
    /\ Resolved(1) /\ results.api = "graphql"
    /\ Has(Raw(1), "evs") /\ DOMAIN Raw(1).evs = {"spe"}
    /\ Has(ResolvedSet(1), "evs") /\ DOMAIN ResolvedSet(1).evs = {"hp", "atk"}
    /\ pokemon1Options.value.evs.spe = 4
    /\ pokemon1Options.value.evs.hp = 252
    /\ pokemon1Options.value.evs.def = DefaultEV
    /\ pokemon1Options.value.ivs.spe = 0
    /\ pokemon1Options.value.ivs.atk = 30
    /\ pokemon1Options.value.ivs.spd = DefaultIV

-----------------------------------------------------------------------------
(* C3 *)

\* The request of side n comes with a move list of its own.
ExplicitMoves(n) == Has(Raw(n), "moves")

-----------------------------------------------------------------------------
(* What the claims about a matchup are stated over. *)

\* Both configurations were built and both Pokemon constructed: the handler
\* reached its two direction blocks.
Built ==
    /\ Done
    /\ pokemon1Options.error = "" /\ pokemon2Options.error = ""
    /\ ~PokemonRaises(pokemon1Options.value.name)
    /\ ~PokemonRaises(pokemon2Options.value.name)

\* The handler produced its results object.
Answered == Done /\ results.error = ""

Directions == {"pokemon1AttackingPokemon2", "pokemon2AttackingPokemon1"}

Other(d) == CHOOSE e \in Directions : e # d

\* The side that attacks / defends in direction d.
AttackerOf(d) == IF d = "pokemon1AttackingPokemon2" THEN 1 ELSE 2
DefenderOf(d) == IF d = "pokemon1AttackingPokemon2" THEN 2 ELSE 1

\* The merged move list of the attacker of direction d.
AttackerMoves(d) == Opts(AttackerOf(d)).value.moves

\* The AttackDirectionResult of direction d and its move list.
Dir(d) == results.value[d]
MovesOf(d) == IF Has(Dir(d), "moves") THEN Dir(d).moves ELSE <<>>

Hit(moveResult, isCrit) ==
    IF isCrit THEN moveResult.criticalHit ELSE moveResult.normalHit

\* The calculate invocations made for direction d.
CallsOf(d) == {k \in 1..Len(calls) : calls[k].attacker = AttackerOf(d)}

\* Some move of some attacker cannot be constructed.
SomeMoveCtorRaises ==
    \E d \in Directions : \E i \in 1..Len(AttackerMoves(d)) :
        engine[AttackerMoves(d)[i]].ctor = "raise"

ZeroRange == <<0, 0>>

-----------------------------------------------------------------------------
(* C4 *)

\* C4: an error raised by any engine call made for one move name --
\* constructing the move object included -- never aborts the request: both
\* directions are answered, each with one MoveResult per move of its attacker.
C4_MoveErrorNeverAborts ==
    (Built /\ results.api = "graphql") =>
        /\ results.error = ""
        /\ \A d \in Directions : Len(MovesOf(d)) = Len(AttackerMoves(d))

-----------------------------------------------------------------------------
(* C5 *)

\* C5: for a move with non-zero base power whose calculate, or a read of
\* its result, raises: the HitResult is damage [0,0], percentage [0,0],
\* koChance "Calculation Error / No effect", with a description that embeds
\* the error's message; and the error does not leave getFormattedResult (when
\* every move object can be constructed the request is answered).
C5_CalculationErrorContained ==
    /\ (Built /\ ~SomeMoveCtorRaises) => Answered
    /\ Answered =>
         \A d \in Directions : \A i \in 1..Len(MovesOf(d)) : \A c \in BOOLEAN :
            LET m == MovesOf(d)[i]
                b == engine[m.moveName]
                h == Hit(m, c)
            IN  (b.bp # 0 /\ TryThrows(b.hit[c])) =>
                   /\ h.damageRange = ZeroRange
                   /\ h.percentageRange = ZeroRange
                   /\ h.koChance = "Calculation Error / No effect"
                   /\ \E j \in 1..Len(h.description) :
                         h.description[j] = b.hit[c].message

\* A move whose normal hit is calculated and whose critical hit fails while
\* its description is read.
C5_Witness ==
    /\ Answered
    /\ \E d \in Directions : \E i \in 1..Len(MovesOf(d)) :
          LET m == MovesOf(d)[i]
          IN  /\ engine[m.moveName].bp # 0
              /\ engine[m.moveName].hit[TRUE].raises = "desc"
              /\ m.criticalHit.koChance = "Calculation Error / No effect"
              /\ m.normalHit.damageRange = <<68, 81>>

-----------------------------------------------------------------------------
(* C6 *)

\* C6: for a move of base power 0 and both isCrit values, calculate is never
\* invoked and the HitResult is damage [0,0], percentage [0,0], koChance
\* "No damaging effect"; the description of the critical hit differs from
\* that of the normal hit.
C6_StatusMoveNeverCalculated ==
    /\ Done => \A k \in 1..Len(calls) : engine[calls[k].moveName].bp # 0
    /\ Answered =>
         \A d \in Directions : \A i \in 1..Len(MovesOf(d)) :
            LET m == MovesOf(d)[i]
            IN  engine[m.moveName].bp = 0 =>
                   /\ \A c \in BOOLEAN :
                         /\ Hit(m, c).damageRange = ZeroRange
                         /\ Hit(m, c).percentageRange = ZeroRange
                         /\ Hit(m, c).koChance = "No damaging effect"
                   /\ m.criticalHit.description # m.normalHit.description

\* A status move answered next to a damaging move that was calculated.
C6_Witness ==
    /\ Answered
    /\ \E d \in Directions : \E i, j \in 1..Len(MovesOf(d)) :
          /\ engine[MovesOf(d)[i].moveName].bp = 0
          /\ MovesOf(d)[i].normalHit.koChance = "No damaging effect"
          /\ MovesOf(d)[i].criticalHit.koChance = "No damaging effect"
          /\ engine[MovesOf(d)[j].moveName].bp # 0
          /\ CallsOf(d) # {}

-----------------------------------------------------------------------------
(* C7 *)

\* C7: whenever the engine succeeds and reports a maximum damage of 0, the
\* HitResult is damage [0,0], percentage [0,0] and koChance exactly
\* "Immune / No damaging effect".
C7_ImmuneText ==
    Answered =>
        \A d \in Directions : \A i \in 1..Len(MovesOf(d)) : \A c \in BOOLEAN :
            LET m == MovesOf(d)[i]
                b == engine[m.moveName]
                h == Hit(m, c)
            IN  (b.bp # 0 /\ ~TryThrows(b.hit[c]) /\ b.hit[c].range[2] = 0) =>
                   /\ h.damageRange = ZeroRange
                   /\ h.percentageRange = ZeroRange
                   /\ h.koChance = "Immune / No damaging effect"

\* An immune hit of a move whose KO text could not have been read.
C7_Witness ==
    /\ Answered
    /\ \E d \in Directions : \E i \in 1..Len(MovesOf(d)) :
          LET m == MovesOf(d)[i]
          IN  /\ engine[m.moveName].bp # 0
              /\ engine[m.moveName].hit[FALSE].raises = "kochance"
              /\ engine[m.moveName].hit[FALSE].range = ZeroRange
              /\ m.normalHit.koChance = "Immune / No damaging effect"

-----------------------------------------------------------------------------
(* C8 *)

\* t is floor(damage * 1000 / maxHP).
IsFloorTenths(t, damage, maxHP) ==
    /\ t * maxHP <= damage * 1000
    /\ damage * 1000 < (t + 1) * maxHP

\* C8: when the engine reports a maximum damage above 0, damageRange is the
\* engine's [min, max] and each percentage bound, in tenths of a percent, is
\* floor(damage * 1000 / defender's max HP) of the corresponding damage bound.
C8_PercentTruncated ==
    Answered =>
        \A d \in Directions : \A i \in 1..Len(MovesOf(d)) : \A c \in BOOLEAN :
            LET m     == MovesOf(d)[i]
                b     == engine[m.moveName]
                h     == Hit(m, c)
                maxHP == SpeciesMaxHP[Opts(DefenderOf(d)).value.name]
            IN  (b.bp # 0 /\ ~TryThrows(b.hit[c]) /\ b.hit[c].range[2] > 0) =>
                   /\ h.damageRange = b.hit[c].range
                   /\ \A j \in 1..2 :
                         IsFloorTenths(h.percentageRange[j],
                                       b.hit[c].range[j], maxHP)

\* Damage 81 against max HP 402: 20.1 percent.
C8_Witness ==
    /\ Answered
    /\ pokemon2Options.value.name = "Corviknight"
    /\ \E i \in 1..Len(MovesOf("pokemon1AttackingPokemon2")) :
          LET m == MovesOf("pokemon1AttackingPokemon2")[i]
          IN  /\ m.normalHit.damageRange = <<68, 81>>
              /\ m.normalHit.percentageRange = <<169, 201>>
              /\ m.criticalHit.damageRange = <<102, 121>>
              /\ m.criticalHit.percentageRange = <<253, 300>>

-----------------------------------------------------------------------------
(* C9 *)

\* C9: graphql_server.js, each direction on its own: the direction's result
\* has a present, empty move list and a non-empty message exactly when its
\* attacker's merged move list is empty; the engine is then not invoked for
\* that direction, and the other direction is computed from its own list.
C9_EmptyMoveList ==
    /\ (Answered /\ results.api = "graphql") =>
         \A d \in Directions :
            /\ Has(Dir(d), "moves")
            /\ (Has(Dir(d), "message") /\ Dir(d).message # <<>>
                  /\ Dir(d).moves = <<>>)
               <=> AttackerMoves(d) = <<>>
            /\ Has(Dir(d), "message") <=> AttackerMoves(d) = <<>>
            /\ AttackerMoves(d) = <<>> =>
                  Len(Dir(Other(d)).moves) = Len(AttackerMoves(Other(d)))
    /\ (Built /\ results.api = "graphql") =>
         \A d \in Directions : AttackerMoves(d) = <<>> => CallsOf(d) = {}

\* pokemon1 without moves, pokemon2 with a move that was calculated.
C9_Witness ==
    /\ Answered /\ results.api = "graphql"
    /\ AttackerMoves("pokemon1AttackingPokemon2") = <<>>
    /\ Dir("pokemon1AttackingPokemon2").moves = <<>>
    /\ Dir("pokemon1AttackingPokemon2").message # <<>>
    /\ Len(Dir("pokemon2AttackingPokemon1").moves) = 2
    /\ CallsOf("pokemon2AttackingPokemon1") # {}
    /\ CallsOf("pokemon1AttackingPokemon2") = {}

-----------------------------------------------------------------------------
(* C10 *)

HitKeys == {"damageRange", "percentageRange", "koChance", "description"}

\* C10: for each direction whose attacker has moves, the result has one
\* MoveResult per entry of the attacker's list, in the same order and under
\* the same names (duplicates kept), each with a normal-hit and a
\* critical-hit HitResult; the direction names its attacker and its defender:
\* pokemon1 then pokemon2 for pokemon1AttackingPokemon2, the reverse for
\* pokemon2AttackingPokemon1.
C10_OneResultPerMove ==
    Answered =>
        \A d \in Directions :
            AttackerMoves(d) # <<>> =>
               /\ Has(Dir(d), "moves")
               /\ Len(Dir(d).moves) = Len(AttackerMoves(d))
               /\ \A i \in 1..Len(AttackerMoves(d)) :
                     /\ Dir(d).moves[i].moveName = AttackerMoves(d)[i]
                     /\ DOMAIN Dir(d).moves[i] =
                           {"moveName", "normalHit", "criticalHit"}
                     /\ DOMAIN Dir(d).moves[i].normalHit = HitKeys
                     /\ DOMAIN Dir(d).moves[i].criticalHit = HitKeys
               /\ Dir(d).attacker.name = Opts(AttackerOf(d)).value.name
               /\ Dir(d).defender.name = Opts(DefenderOf(d)).value.name

\* The same move twice for pokemon1, two different moves for pokemon2.
C10_Witness ==
    /\ Answered
    /\ AttackerMoves("pokemon1AttackingPokemon2") = <<"Strike", "Strike">>
    /\ AttackerMoves("pokemon2AttackingPokemon1") = <<"Growl", "Strike">>
    /\ Len(Dir("pokemon1AttackingPokemon2").moves) = 2
    /\ Dir("pokemon1AttackingPokemon2").moves[2].moveName = "Strike"
    /\ Dir("pokemon2AttackingPokemon1").moves[1].moveName = "Growl"
    /\ Dir("pokemon1AttackingPokemon2").attacker.name = "Garchomp"
    /\ Dir("pokemon1AttackingPokemon2").defender.name = "Corviknight"
    /\ Dir("pokemon2AttackingPokemon1").attacker.name = "Corviknight"

-----------------------------------------------------------------------------
(* C11 *)

\* The global flags of a field: everything new Field reads but the two sides.
GlobalKeys == FieldKeys \ {"attackerSide", "defenderSide"}

\* The side conditions the request gives for pokemon n; none when the side,
\* or the whole field, is missing.
RequestSide(n) ==
    LET side == IF n = 1 THEN "pokemon1Side" ELSE "pokemon2Side"
    IN  IF Has(options, "field") /\ Has(options.field, side)
        THEN options.field[side]
        ELSE EmptyObject

\* C11: in every calculate invocation the field's attacking side is the side
\* conditions of the pokemon that attacks and its defending side those of the
\* pokemon that defends (so the two are swapped between the directions), a
\* missing side or field counting as empty side conditions; the global flags
\* are the same in every invocation of the request, and a flag the request
\* supplies reaches the engine unchanged.
C11_FieldSides ==
    Done =>
        /\ \A k \in 1..Len(calls) :
              /\ calls[k].field.attackerSide = RequestSide(calls[k].attacker)
              /\ calls[k].field.defenderSide = RequestSide(calls[k].defender)
              /\ calls[k].attacker # calls[k].defender
              /\ \A g \in GlobalKeys :
                    (Has(options, "field") /\ Has(options.field, g)) =>
                        /\ Has(calls[k].field, g)
                        /\ calls[k].field[g] = options.field[g]
        /\ \A k, l \in 1..Len(calls) :
              Pick(calls[k].field, GlobalKeys) = Pick(calls[l].field, GlobalKeys)

\* Stealth rock on pokemon2's side only, rain and gravity on the field, both
\* directions calculated.
C11_Witness ==
    /\ Answered
    /\ \E k, l \in 1..Len(calls) :
          /\ calls[k].attacker = 1 /\ calls[l].attacker = 2
          /\ calls[k].field.defenderSide = [isSR |-> TRUE]
          /\ calls[k].field.attackerSide = EmptyObject
          /\ calls[l].field.attackerSide = [isSR |-> TRUE]
          /\ calls[l].field.defenderSide = EmptyObject
          /\ calls[k].field.weather = "Rain" /\ calls[l].field.weather = "Rain"
          /\ calls[k].field.isGravity /\ calls[l].field.isGravity

-----------------------------------------------------------------------------
(* What the claims about failures and listings are stated over. *)

\* The request served was a matchup / a listing query.
IsMatchup == Has(options, "pokemon1")
IsQuery == Has(options, "trainerName")

ResolutionErrors ==
    {DatasetNotFound, SpeciesNotFound, TrainerSetNotFound, MissingPokemonName}

\* getPokemonOptions was called for side n.
Called(n) == Opts(n) # NotCalled

-----------------------------------------------------------------------------
(* C12 *)

\* C12: a matchup request ends either with a complete result (both
\* directions present) or with one error and no result at all; when the
\* resolution of either side fails (no dataset, no species, no trainer set, no
\* name) there is no result, not even a part of one, and calculate was never
\* invoked.
C12_ResultOrError ==
    (Done /\ IsMatchup) =>
        /\ \/ /\ results.error = ""
              /\ Directions \subseteq DOMAIN results.value
              /\ \A d \in Directions : Has(Dir(d), "attacker")
           \/ /\ results.error # ""
              /\ results.value = EmptyObject
        /\ (\E n \in {1, 2} : Opts(n).error \in ResolutionErrors) =>
              /\ results.error \in ResolutionErrors
              /\ results.value = EmptyObject
              /\ calls = <<>>

\* pokemon1 resolved, pokemon2's trainer is not in the sets: no result.
C12_Witness ==
    /\ Done /\ IsMatchup
    /\ pokemon1Options.error = "" /\ ByTrainer(1)
    /\ pokemon2Options.error = TrainerSetNotFound
    /\ results.error = TrainerSetNotFound
    /\ results.value = EmptyObject
    /\ calls = <<>>

-----------------------------------------------------------------------------
(* C13 *)

\* C13: for a generation without loaded sets, getPokemonOptions with a
\* trainer reference and getTrainerPokemonSets both fail with the
\* dataset-not-found error, whatever the species and the trainer name, and
\* return nothing.
C13_DatasetNotFound ==
    /\ (Done /\ IsMatchup /\ GenNum(options) \notin LoadedGens) =>
          \A n \in {1, 2} :
             (Called(n) /\ ByTrainer(n)) =>
                /\ Opts(n).error = DatasetNotFound
                /\ Opts(n).value = EmptyObject
                /\ results.error = DatasetNotFound
                /\ results.value = EmptyObject
    /\ (Done /\ IsQuery /\ options.generation \notin LoadedGens) =>
          /\ results.error = DatasetNotFound
          /\ results.value = EmptyObject

\* Generation 10: pokemon1 is given directly, pokemon2 by trainer reference.
C13_Witness ==
    /\ Done /\ IsMatchup
    /\ options.generation = 10
    /\ ~ByTrainer(1) /\ pokemon1Options.error = ""
    /\ ByTrainer(2) /\ pokemon2Options.error = DatasetNotFound
    /\ results.error = DatasetNotFound

-----------------------------------------------------------------------------
(* C15 *)

\* The sets the listing query reads.
QuerySetdex == SETDEX_BY_GEN[options.generation]

\* The positions <<species, preset>> of the declared presets.
PresetPositions ==
    UNION { {<<i, j>> : j \in 1..Len(QuerySetdex[i].sets)} :
              i \in 1..Len(QuerySetdex) }

\* Those whose name or trainer label contains the query's trainer name as a
\* whole word.
ListedPositions ==
    {p \in PresetPositions :
        NamesTrainer(QuerySetdex[p[1]].sets[p[2]], options.trainerName)}

\* Entry e of the listing is the preset at position p.
IsAt(e, p) ==
    /\ e.speciesName = QuerySetdex[p[1]].speciesName
    /\ e.setName = QuerySetdex[p[1]].sets[p[2]].setName

PositionOf(e) == CHOOSE p \in PresetPositions : IsAt(e, p)

\* Declaration order: species first, then presets.
Precedes(p, q) == p[1] < q[1] \/ (p[1] = q[1] /\ p[2] < q[2])

\* C15: on a loaded generation the listing never fails and holds exactly the
\* presets whose name or trainer label contains trainerName as a whole word,
\* case-insensitively: each once, no other (a first-token match is not
\* enough), in declaration order of the species and then of the presets; it
\* is the empty list when nothing matches.
C15_ListsExactlyMatches ==
    (Done /\ IsQuery /\ options.generation \in LoadedGens) =>
        /\ results.error = ""
        /\ Len(results.value) = Cardinality(ListedPositions)
        /\ \A k \in 1..Len(results.value) :
              /\ \E p \in ListedPositions : IsAt(results.value[k], p)
              /\ PositionOf(results.value[k]) \in ListedPositions
        /\ \A k, l \in 1..Len(results.value) :
              k < l => Precedes(PositionOf(results.value[k]),
                                PositionOf(results.value[l]))

\* "a.b" asked for: the first species' "aab" is left out, its "a.b" and the
\* second species' preset labelled "a.b" are listed, in that order.
C15_Witness ==
    /\ Done /\ IsQuery /\ results.error = ""
    /\ options.trainerName = <<"a", ".", "b">>
    /\ Len(QuerySetdex) = 2
    /\ Len(QuerySetdex[1].sets) = 2
    /\ QuerySetdex[1].sets[1].setName = <<"a", "a", "b">>
    /\ Len(results.value) = 2
    /\ results.value[1].speciesName = "Staryu"
    /\ results.value[1].setName = <<"a", ".", "b">>
    /\ results.value[2].speciesName = "Corviknight"

\* Nothing matches: the empty list, no error.
C15_WitnessEmpty ==
    /\ Done /\ IsQuery /\ results.error = ""
    /\ PresetPositions # {}
    /\ results.value = <<>>

-----------------------------------------------------------------------------
(* C14 *)

\* The species side n refers to is declared in the generation's sets.
SpeciesDeclared(n) ==
    SpeciesIndex(SETDEX_BY_GEN[GenNum(options)],
                 Raw(n).trainerPokemon.speciesName, 1) # 0

\* The presets of side n's species whose first token is the first token of
\* the trainer name, and those declared under the trainer name itself.
FirstTokenMatches(n) ==
    {i \in 1..Len(SetsOf(n)) :
        FirstWord(SetsOf(n)[i].setName)
            = FirstWord(Raw(n).trainerPokemon.trainerName)}

LiteralKeyMatches(n) ==
    {i \in 1..Len(SetsOf(n)) :
        SetsOf(n)[i].setName = Raw(n).trainerPokemon.trainerName}

\* C14: on a loaded generation the lookup fails with SpeciesNotFound exactly
\* when the species has no presets declared; otherwise it fails with
\* TrainerSetNotFound exactly when no preset of the species contains the
\* trainer name as a whole word, none shares its first token, and none is
\* declared under the trainer name; in every other case it returns a preset
\* of that species.
C14_LookupFailures ==
    (Done /\ IsMatchup /\ ByTrainer(1) /\ GenNum(options) \in LoadedGens) =>
        LET none == /\ WholeWordMatches(1) = {}
                    /\ FirstTokenMatches(1) = {}
                    /\ LiteralKeyMatches(1) = {}
        IN  /\ pokemon1Options.error = SpeciesNotFound <=> ~SpeciesDeclared(1)
            /\ pokemon1Options.error = TrainerSetNotFound
                  <=> (SpeciesDeclared(1) /\ none)
            /\ (SpeciesDeclared(1) /\ ~none) =>
                  /\ pokemon1Options.error = ""
                  /\ pokemon1Options.trainerSet \in 1..Len(SetsOf(1))

-----------------------------------------------------------------------------
(* C16 *)

\* The request of side n supplies a non-empty name.
NamedDirectly(n) == Has(Raw(n), "name") /\ Raw(n).name # ""

\* C16: getPokemonOptions fails with the missing-name error exactly when the
\* request has neither a trainer reference nor a non-empty name; when a
\* trainer reference resolves, the resulting name is the reference's species
\* name, whatever name the request supplies.
C16_NameRequired ==
    (Done /\ IsMatchup /\ Called(1)) =>
        /\ pokemon1Options.error = MissingPokemonName
              <=> (~ByTrainer(1) /\ ~NamedDirectly(1))
        /\ Resolved(1) =>
              pokemon1Options.value.name = Raw(1).trainerPokemon.speciesName

\* A directly supplied name replaced by the species of the trainer reference.
C16_Witness ==
    /\ Resolved(1) /\ results.api = "graphql"
    /\ NamedDirectly(1) /\ Raw(1).name = "Garchomp"
    /\ Raw(1).trainerPokemon.speciesName = "Corviknight"
    /\ pokemon1Options.value.name = "Corviknight"

-----------------------------------------------------------------------------
(* C17 *)

\* The fields of a configuration other than its two stat objects, and the
\* defaults of those that have one.
ScalarKeys == {"name", "level", "ability", "item", "nature", "boosts",
               "curHP", "status", "isDynamaxed", "moves"}

FieldDefaults ==
    [level |-> DefaultLevel, nature |-> "Serious", boosts |-> EmptyObject,
     status |-> "", isDynamaxed |-> FALSE, moves |-> <<>>]

\* C17: without a trainer reference every field of the result is the value
\* the request supplies, for every supplied value, and otherwise the default:
\* level 100, nature "Serious", IVs 31, EVs 0, empty boosts, empty status,
\* dynamax false, empty move list.
C17_ExplicitOrDefault ==
    (Done /\ IsMatchup /\ ~ByTrainer(1) /\ pokemon1Options.error = "") =>
        LET v == pokemon1Options.value
        IN  /\ \A k \in ScalarKeys :
                  IF Has(Raw(1), k) THEN Has(v, k) /\ v[k] = Raw(1)[k]
                  ELSE k \in DOMAIN FieldDefaults =>
                          Has(v, k) /\ v[k] = FieldDefaults[k]
            /\ \A k \in StatKinds : \A s \in Stats :
                  v[k][s] = IF Supplies(Raw(1), k, s) THEN Raw(1)[k][s]
                            ELSE StatDefault(k)

-----------------------------------------------------------------------------
(* C18 *)

\* The request of side n without its trainer reference.
WithoutTrainer(n) == [k \in DOMAIN Raw(n) \ {"trainerPokemon"} |-> Raw(n)[k]]

\* What the same handler's getPokemonOptions yields for it.
DirectConfig(n) ==
    getPokemonOptions(results.api, SETDEX_BY_GEN, GenNum(options),
                      WithoutTrainer(n)).value

PresetScalars == {"level", "ability", "item", "nature"}

C18_WitnessFallback ==
    /\ Resolved(1) /\ results.api = "graphql"
    /\ ~Has(ResolvedSet(1), "level")
    /\ Has(Raw(1), "level")
    /\ pokemon1Options.value.level = 5
    /\ pokemon1Options.value.ability = "Rough Skin"

-----------------------------------------------------------------------------
(* C19 *)

FrameKeys == {"boosts", "curHP", "status", "isDynamaxed"}

\* C19: with a trainer reference that resolves, boosts, current HP, status
\* and dynamax flag are exactly what the same request yields without the
\* trainer reference, whatever the preset carries.
C19_PresetLeavesFrame ==
    Resolved(1) =>
        Pick(pokemon1Options.value, FrameKeys) = Pick(DirectConfig(1), FrameKeys)

\* Supplied boosts, current HP, status and dynamax flag next to a preset that
\* carries level, ability, item, nature, stats and moves.
C19_Witness ==
    /\ Resolved(1)
    /\ Has(ResolvedSet(1), "level") /\ Has(ResolvedSet(1), "ivs")
    /\ Has(ResolvedSet(1), "moves")
    /\ pokemon1Options.value.boosts = [atk |-> 2]
    /\ pokemon1Options.value.curHP = 10
    /\ pokemon1Options.value.status = "Burn"
    /\ pokemon1Options.value.isDynamaxed

-----------------------------------------------------------------------------
(* C20 *)

\* C20: every configuration getPokemonOptions returns has an IV object and
\* an EV object in which each of the six stats is a non-negative integer,
\* whatever stats the request and the preset supply or leave out; no
\* calculate invocation is made before both configurations are so.
C20_CompleteStats ==
    (Done /\ IsMatchup) =>
        /\ \A n \in {1, 2} :
              Opts(n).error = "" =>
                 \A k \in StatKinds :
                    /\ Has(Opts(n).value, k)
                    /\ DOMAIN Opts(n).value[k] = Stats
                    /\ \A s \in Stats : Opts(n).value[k][s] \in Nat
        /\ calls # <<>> => \A n \in {1, 2} : Opts(n).error = ""

\* The request supplies speed only, the preset no stats at all.
C20_Witness ==
    /\ Resolved(1)
    /\ Has(Raw(1), "ivs") /\ DOMAIN Raw(1).ivs = {"spe"}
    /\ ~Has(ResolvedSet(1), "ivs") /\ ~Has(ResolvedSet(1), "evs")
    /\ DOMAIN pokemon1Options.value.ivs = Stats
    /\ DOMAIN pokemon1Options.value.evs = Stats
    /\ calls # <<>>

-----------------------------------------------------------------------------
(* C21 *)

\* C21: no step of any handler, in any number and order of requests and
\* queries, changes the sets of any generation: the presets, their
\* attributes and the declaration order stay what they were at startup.
C21_SetsNeverChange == [][SETDEX_BY_GEN' = SETDEX_BY_GEN]_vars

\* A request was resolved against a preset, and the preset the sets declare
\* at that position still carries the moves the configuration got from it.
C21_Witness ==
    /\ Done /\ IsMatchup /\ Resolved(1)
    /\ Has(ResolvedSet(1), "moves")
    /\ pokemon1Options.value.moves = ResolvedSet(1).moves
    /\ Len(SETDEX_BY_GEN[9]) = 2
    /\ calls # <<>>

-----------------------------------------------------------------------------
(* Several calculateDamage requests in flight. The resolver is a synchronous
   function, so each request is handled in one step; requests arrive, are
   handled and are answered in any order. Here every per-request variable
   holds one value per request slot. *)

MaxInFlight == 2

Slots == 1..MaxInFlight

InFlightRequests ==
    { Request(a, b, f) :
        a \in { [name |-> "Garchomp", moves |-> <<"Strike">>],
                [name |-> "Garchomp", moves |-> <<"Growl", "Strike">>],
                [moves |-> <<"Strike">>] },
        b \in { [name |-> "Corviknight"], [trainerPokemon |-> TheTrainer] },
        f \in Fields }

\* An engine whose calculate raises for a critical Strike.
FaultyEngine ==
    [PlainEngine EXCEPT !["Strike"].hit[TRUE] = Outcome("calculate", <<0, 0>>, "", "")]

\* A request arrives in a free slot.
ReceiveSlot(s) ==
    /\ pc[s] = "idle"
    /\ \E o \in InFlightRequests : options' = [options EXCEPT ![s] = o]
    /\ pc' = [pc EXCEPT ![s] = "pending"]
    /\ UNCHANGED <<SETDEX_BY_GEN, engine, pokemon1Options, pokemon2Options,
                   results, calls>>

\* A resolver that keeps the last pokemon1 configuration in a module-level
\* variable and uses it when another request has left one there.
ServeSlotShared(s) ==
    /\ pc[s] = "pending"
    /\ LET own1 == getPokemonOptions("graphql", SETDEX_BY_GEN, GenNum(options[s]), options[s].pokemon1)
           own2 == getPokemonOptions("graphql", SETDEX_BY_GEN, GenNum(options[s]), options[s].pokemon2)
           left == {t \in Slots : t # s /\ pc[t] = "done"}
           p1 == IF left = {} THEN own1 ELSE pokemon1Options[CHOOSE t \in left : TRUE]
           m == WithOptions("graphql", engine, options[s], p1, own2)
       IN  /\ pokemon1Options' = [pokemon1Options EXCEPT ![s] = m.p1]
           /\ pokemon2Options' = [pokemon2Options EXCEPT ![s] = m.p2]
           /\ results' = [results EXCEPT ![s] = [api |-> "graphql"] @@ m.out]
           /\ calls' = [calls EXCEPT ![s] = m.calls]
    /\ pc' = [pc EXCEPT ![s] = "done"]
    /\ UNCHANGED <<SETDEX_BY_GEN, engine, options>>

\* graphql_server.js: resolvers.Query.calculateDamage, for the request in
\* slot s: every const of the resolver is local to the call.
ServeSlot(s) ==
    /\ pc[s] = "pending"
    /\ LET m == Matchup("graphql", SETDEX_BY_GEN, engine, options[s])
       IN  /\ pokemon1Options' = [pokemon1Options EXCEPT ![s] = m.p1]
           /\ pokemon2Options' = [pokemon2Options EXCEPT ![s] = m.p2]
           /\ results' = [results EXCEPT ![s] = [api |-> "graphql"] @@ m.out]
           /\ calls' = [calls EXCEPT ![s] = m.calls]
    /\ pc' = [pc EXCEPT ![s] = "done"]
    /\ UNCHANGED <<SETDEX_BY_GEN, engine, options>>

\* The response of slot s has been sent; its locals are gone.
ReplySlot(s) ==
    /\ pc[s] = "done"
    /\ pc' = [pc EXCEPT ![s] = "idle"]
    /\ options' = [options EXCEPT ![s] = EmptyObject]
    /\ pokemon1Options' = [pokemon1Options EXCEPT ![s] = NotCalled]
    /\ pokemon2Options' = [pokemon2Options EXCEPT ![s] = NotCalled]
    /\ results' = [results EXCEPT ![s] = EmptyObject]
    /\ calls' = [calls EXCEPT ![s] = <<>>]
    /\ UNCHANGED <<SETDEX_BY_GEN, engine>>

InitInFlight ==
    /\ SETDEX_BY_GEN = Setdex("Corviknight",
                              <<[setName |-> <<"a">>,
                                 set |-> [level |-> 50,
                                          moves |-> <<"Growl", "Strike">>]]>>)
    /\ engine \in {PlainEngine, FaultyEngine}
    /\ pc = [s \in Slots |-> "idle"]
    /\ options = [s \in Slots |-> EmptyObject]
    /\ pokemon1Options = [s \in Slots |-> NotCalled]
    /\ pokemon2Options = [s \in Slots |-> NotCalled]
    /\ results = [s \in Slots |-> EmptyObject]
    /\ calls = [s \in Slots |-> <<>>]

NextInFlight ==
    \/ \E s \in Slots : ReceiveSlot(s)
    \/ \E s \in Slots : ServeSlot(s)
    \/ \E s \in Slots : ReplySlot(s)

SpecInFlight == InitInFlight /\ [][NextInFlight]_vars

-----------------------------------------------------------------------------
(* C22 *)

\* What the request of slot s produces when it is the only request: the
\* matchup of its own options against the sets and the engine.
Alone(s) ==
    [api |-> "graphql"] @@ Matchup("graphql", SETDEX_BY_GEN, engine, options[s]).out

\* What slot s holds: its request and everything its handling created.
Locals(s) ==
    <<options[s], pokemon1Options[s], pokemon2Options[s], results[s], calls[s]>>

\* The outcome of every handled request is the one it produces alone.
OutcomeAsAlone ==
    \A s \in Slots : pc[s] = "done" => results[s] = Alone(s)

\* A step that changes what a slot holds is a step of that slot.
OwnLocalsOnly ==
    \A s \in Slots : Locals(s)' # Locals(s) => pc'[s] # pc[s]

\* C22: with several requests in flight, in any interleaving, the outcome of
\* each request (result or error) is the outcome the same request produces
\* when run alone against the same sets, and no step of one request changes
\* a configuration, field, call or result of another request.
C22_RequestsIsolated == [](OutcomeAsAlone) /\ [][OwnLocalsOnly]_vars

\* Two requests with different outcomes have both been handled, one of them
\* failed and the other answered, and neither has been replied to yet.
C22_Witness ==
    /\ \A s \in Slots : pc[s] = "done"
    /\ results[1].error # ""
    /\ results[2].error = ""
    /\ options[1].pokemon2 # options[2].pokemon2
    /\ calls[1] = <<>> /\ calls[2] # <<>>

-----------------------------------------------------------------------------
(* C23 *)

\* The command-line handler printed its results object.
Printed == Answered /\ results.api = "cli"

\* C23: on success the command-line handler prints one object that holds the
\* generation, the summary of pokemon1, the summary of pokemon2 and both
\* direction results.
C23_PrintedObjectComplete ==
    Printed =>
        /\ {"generation", "pokemon1", "pokemon2"} \subseteq DOMAIN results.value
        /\ Directions \subseteq DOMAIN results.value

-----------------------------------------------------------------------------
(* C24 *)

\* C24: in each direction result the command-line handler prints, exactly
\* one of message and moves is present: message alone when the attacker's
\* merged move list is empty, moves alone when it is not.
C24_MessageOrMoves ==
    Printed =>
        \A d \in Directions :
            /\ Has(Dir(d), "message") # Has(Dir(d), "moves")
            /\ Has(Dir(d), "message") <=> (AttackerMoves(d) = <<>>)
            /\ Has(Dir(d), "moves") => Len(Dir(d).moves) = Len(AttackerMoves(d))

\* One printed object with a direction of each kind.
C24_Witness ==
    /\ Printed
    /\ AttackerMoves("pokemon1AttackingPokemon2") = <<>>
    /\ Has(Dir("pokemon1AttackingPokemon2"), "message")
    /\ AttackerMoves("pokemon2AttackingPokemon1") # <<>>
    /\ Has(Dir("pokemon2AttackingPokemon1"), "moves")

-----------------------------------------------------------------------------
(* Preset lookup with trainer names of two tokens and names that end in a
   dot, the inputs the weak match and the direct key are about. *)

DottedTrainerNames ==
    { <<"a", ".", " ", "b">>, <<"a", ".">>, <<"a", " ", "b">>, <<"a">> }

DottedSetNames ==
    { <<"a", ".", " ", "a">>, <<"a", "b", " ", "b">>, <<"a", ".">>,
      <<"a", ".", " ", "b">>, <<"a", " ", "b">>, <<"a", " ", "a">>, <<"a">> }

\* All species-sets objects of at most n presets under these names.
RECURSIVE DottedSetsUpTo(_)
DottedSetsUpTo(n) ==
    IF n = 0 THEN {<<>>}
    ELSE LET shorter == DottedSetsUpTo(n - 1)
         IN  shorter \cup
             { Append(q, [setName |-> k, set |-> [moves |-> <<"Strike">>]]) :
                 q \in {r \in shorter : Len(r) = n - 1}, k \in DottedSetNames }

DottedRequests ==
    { Request([trainerPokemon |-> [speciesName |-> "Staryu", trainerName |-> t]],
              [name |-> "Garchomp"], EmptyObject) : t \in DottedTrainerNames }

InitDotted ==
    /\ \E speciesSets \in {q \in DottedSetsUpTo(MaxSets) : DistinctKeys(q)} :
          SETDEX_BY_GEN = Setdex("Staryu", speciesSets)
    /\ engine = PlainEngine
    /\ Idle

NextDotted ==
    \/ Receive(DottedRequests)
    \/ calculateDamage
    \/ calculateDamageCLI
    \/ Reply

SpecDotted == InitDotted /\ [][NextDotted]_vars

-----------------------------------------------------------------------------
(* C25 *)

\* A lookup of pokemon1's trainer reference among declared presets was made.
LookedUp == Done /\ IsMatchup /\ ByTrainer(1) /\ SpeciesDeclared(1)

\* C25: when no preset of the species contains trainerName as a whole word
\* (in its name or its trainer label) and some preset's first token is the
\* first token of trainerName, the lookup returns the first such preset in
\* declaration order; and when some preset does contain trainerName as a
\* whole word, the lookup never returns a preset that only shares the first
\* token.
C25_FirstWeakMatch ==
    LookedUp =>
        /\ (WholeWordMatches(1) = {} /\ FirstTokenMatches(1) # {}) =>
              /\ Opts(1).error = ""
              /\ Opts(1).trainerSet = Min(FirstTokenMatches(1))
        /\ (WholeWordMatches(1) # {} /\ Opts(1).error = "") =>
              Opts(1).trainerSet \notin (FirstTokenMatches(1) \ WholeWordMatches(1))

-----------------------------------------------------------------------------
(* C28 *)

\* The preset the loop over the presets of pokemon1's species ends with
\* (0 when it ends with none).
PassSelected == ScanSets(SetsOf(1), Raw(1).trainerPokemon.trainerName, 1, 0)

\* Preset i passes the loop's first test, or shares the trainer name's
\* first token.
PassCanSelect(i) ==
    LET entry == SetsOf(1)[i]
        trainerName == Raw(1).trainerPokemon.trainerName
    IN  \/ RegExpTest(trainerName, entry.setName)
        \/ TrainerLabelTest(trainerName, entry.set)
        \/ FirstWord(entry.setName) = FirstWord(trainerName)

-----------------------------------------------------------------------------
(* C26 *)

\* What the getPokemonOptions of one of the two files does with the
\* configuration of pokemon1: the error it throws or the options it returns.
OutcomeOf(api) ==
    LET r == getPokemonOptions(api, SETDEX_BY_GEN, GenNum(options), Raw(1))
    IN  [error |-> r.error, value |-> r.value]

\* C26: the getPokemonOptions of cli_calc.js and that of graphql_server.js
\* are equivalent: for the same generation and the same raw configuration
\* they fail with the same error or return the same configuration in every
\* field.
C26_SameConfiguration ==
    (Done /\ IsMatchup) => OutcomeOf("cli") = OutcomeOf("graphql")

-----------------------------------------------------------------------------
(* C27 *)

\* A lookup of pokemon1's trainer reference on a loaded generation.
LookupOnLoaded ==
    /\ Done /\ IsMatchup /\ ByTrainer(1)
    /\ GenNum(options) \in DOMAIN SETDEX_BY_GEN

\* The list getTrainerPokemonSets gives for the same generation and trainer
\* name, and the positions of its entries for pokemon1's species.
ListedForTrainer ==
    TrainerPokemonSets(SETDEX_BY_GEN, GenNum(options),
                       Raw(1).trainerPokemon.trainerName).value

ListedOfSpecies ==
    {k \in 1..Len(ListedForTrainer) :
        ListedForTrainer[k].speciesName = Raw(1).trainerPokemon.speciesName}

\* The lookup returned a preset that passes the loop's first test (a preset
\* the loop keeps as a first-token candidate has failed that test).
ReturnedByStrongMatch ==
    /\ Opts(1).error = ""
    /\ LET entry == SetsOf(1)[Opts(1).trainerSet]
           trainerName == Raw(1).trainerPokemon.trainerName
       IN  \/ RegExpTest(trainerName, entry.setName)
           \/ TrainerLabelTest(trainerName, entry.set)

\* C27: the lookup and the listing apply the same strong-match test: the
\* listing for trainerName has an entry for the species exactly when the
\* lookup of (species, trainerName) returns by strong match, and the preset
\* the lookup returns is then the first listed entry of that species.
C27_SameStrongMatch ==
    LookupOnLoaded =>
        /\ (ListedOfSpecies # {}) <=> ReturnedByStrongMatch
        /\ (ListedOfSpecies # {}) =>
              SetsOf(1)[Opts(1).trainerSet].setName
                  = ListedForTrainer[Min(ListedOfSpecies)].setName

-----------------------------------------------------------------------------
(* C29 *)

\* <<attacker, move, critical>> of one calculate invocation.
Invocation(side, moveName, isCrit) ==
    [attacker |-> side, moveName |-> moveName, isCrit |-> isCrit]

\* The invocations the listed moves of one attacker call for, from move i
\* on: none for a move of base power 0, else the normal hit and then the
\* critical hit.
RECURSIVE InvocationsFor(_, _, _)
InvocationsFor(side, moves, i) ==
    IF i > Len(moves) THEN <<>>
    ELSE (IF engine[moves[i]].bp = 0 THEN <<>>
          ELSE <<Invocation(side, moves[i], FALSE),
                 Invocation(side, moves[i], TRUE)>>)
         \o InvocationsFor(side, moves, i + 1)

\* pokemon1's moves, then pokemon2's.
InvocationsInOrder ==
    InvocationsFor(1, pokemon1Options.value.moves, 1)
    \o InvocationsFor(2, pokemon2Options.value.moves, 1)

\* The invocations made, in the order they were made.
InvocationsMade ==
    [k \in 1..Len(calls) |->
        Invocation(calls[k].attacker, calls[k].moveName, calls[k].isCrit)]

IsPrefix(p, q) ==
    /\ Len(p) <= Len(q)
    /\ \A k \in 1..Len(p) : p[k] = q[k]

\* C29: within one matchup request calculate is invoked only after both
\* configurations have been resolved, and in this order: pokemon1's moves in
\* list order, for each move the normal hit before the critical hit, then
\* pokemon2's moves likewise; it is never invoked for a move of base power
\* 0, an answered request has invoked it exactly twice for every listed move
\* of non-zero base power, and the total is at most twice the number of
\* listed moves.
C29_CalculateOrder ==
    (Done /\ IsMatchup) =>
        /\ calls # <<>> => Built
        /\ Built =>
              /\ IsPrefix(InvocationsMade, InvocationsInOrder)
              /\ \A k \in 1..Len(calls) : engine[calls[k].moveName].bp # 0
              /\ Len(calls) <= 2 * (Len(pokemon1Options.value.moves)
                                      + Len(pokemon2Options.value.moves))
        /\ Answered => InvocationsMade = InvocationsInOrder

\* An answered request of two attackers with two moves each, one of the
\* four of base power 0: six invocations.
C29_Witness ==
    /\ Answered
    /\ Len(pokemon1Options.value.moves) = 2
    /\ Len(pokemon2Options.value.moves) = 2
    /\ Len(calls) = 6
    /\ calls[1].attacker = 1 /\ calls[6].attacker = 2
    /\ ~calls[1].isCrit /\ calls[2].isCrit

-----------------------------------------------------------------------------
(* C30 *)

\* The koChance texts of a hit without damage.
NoEffectTexts ==
    { "No damaging effect", "Immune / No damaging effect",
      "Calculation Error / No effect" }

\* min and max of a range are not negative and in order.
Ordered(range) == 0 <= range[1] /\ range[1] <= range[2]

\* C30: every HitResult getFormattedResult produced has damageRange and
\* percentageRange [0, 0] when its koChance is one of the three no-effect
\* texts; and whenever the engine reported 0 <= min <= max against a
\* defender of max HP above 0, the damage bounds and the percentage bounds
\* of the HitResult are not negative and min <= max holds for both.
C30_HitResultRanges ==
    Answered =>
        \A d \in Directions : \A i \in 1..Len(MovesOf(d)) : \A c \in BOOLEAN :
            LET m     == MovesOf(d)[i]
                h     == Hit(m, c)
                maxHP == SpeciesMaxHP[Opts(DefenderOf(d)).value.name]
            IN  /\ h.koChance \in NoEffectTexts =>
                      /\ h.damageRange = ZeroRange
                      /\ h.percentageRange = ZeroRange
                /\ (Ordered(engine[m.moveName].hit[c].range) /\ maxHP > 0) =>
                      /\ Ordered(h.damageRange)
                      /\ Ordered(h.percentageRange)

\* One direction holds a hit with damage, whose bounds differ, and a hit
\* with a no-effect text.
C30_Witness ==
    /\ Answered
    /\ \E d \in Directions :
          /\ \E i \in 1..Len(MovesOf(d)) :
                /\ MovesOf(d)[i].normalHit.koChance \notin NoEffectTexts
                /\ MovesOf(d)[i].normalHit.percentageRange[1]
                      < MovesOf(d)[i].normalHit.percentageRange[2]
          /\ \E i \in 1..Len(MovesOf(d)) :
                MovesOf(d)[i].normalHit.koChance = "Immune / No damaging effect"

=============================================================================
